---- MODULE Spec2Model ----
(***************************************************************************)
(* Model of the predeposits-data scripts:                                  *)
(*   src/fetch_vault_balance.js  (ERC-4626 vault balance tracker)          *)
(*   src/unnamed/part_000        (DepositProcessed event fetcher)          *)
(*                                                                         *)
(* Spec        the chunked fetch loop (getVaultEvents and                  *)
(*             getDepositProcessedEvents) against a Log Source             *)
(* SpecDeposit formatEvents and groupEventsByUserAndAsset                  *)
(* SpecVault   formatEvents and calculateRunningBalance                    *)
(* SpecDecode  the decoders of both scripts                                *)
(* SpecReport  the vault pipeline up to saveUserBalances                   *)
(* SpecRun     main of both scripts, with getProvider                      *)
(***************************************************************************)
EXTENDS Integers, Sequences, FiniteSets, TLC

(***************************************************************************)
(* Bounds of the model.                                                    *)
(***************************************************************************)
MaxFromBlock == 1
MaxSpan == 4
MaxChunkSize == 3

(***************************************************************************)
(* The documented run: README "Processing Details" and main().             *)
(***************************************************************************)
DocFromBlock == 22547938
DocToBlock == 22770565
DocChunkSize == 1000
DocChunks == 223

VARIABLES
    script,        \* "vault" | "deposit": which script's loop runs
    fromBlock,     \* argument fromBlock
    toBlock,       \* argument toBlock, when it is a block number
    toBlockLatest, \* TRUE while the argument toBlock is 'latest'
    chunkSize,     \* argument chunkSize
    totalChunks,   \* const totalChunks
    i,             \* loop variable i
    pc,            \* position of the async function
    outstanding,   \* requests the provider has been sent and not answered
    allEvents,     \* let allEvents
    requests,      \* history: the getLogs filters issued, in order
    chunkResults   \* history: what the Log Source answered, in order

fetchVars == <<script, fromBlock, toBlock, toBlockLatest, chunkSize, totalChunks, i, pc,
               outstanding, allEvents, requests, chunkResults>>

VARIABLES
    collation,       \* the collation String.prototype.localeCompare uses
    events,          \* the raw logs main passes to formatEvents
    ppc,             \* position of main after the fetch
    pos,             \* number of elements the current for...of has consumed
    formattedEvents, \* const formattedEvents
    grouped,         \* const grouped: its entries in insertion order
    groupedEvents,   \* const groupedEvents of main
    runningBalance,  \* let runningBalance of calculateRunningBalance
    balanceHistory   \* const balanceHistory

pipeVars == <<collation, events, ppc, pos, formattedEvents, grouped,
              groupedEvents, runningBalance, balanceHistory>>

VARIABLES
    vaultAddress,  \* parameter vaultAddress of saveUserBalances
    userBalances,  \* const userBalances: its entries in insertion order
    files,         \* history: what fs.writeFileSync was given, in order
    summary        \* what saveUserBalances returned: <<>> before, <<null>> or <<summary>>

saveVars == <<vaultAddress, userBalances, files, summary>>

VARIABLES
    rpc,           \* position of main
    vault,         \* index in VAULTS of the vault main is processing
    endpoint,      \* index in RPC_ENDPOINTS of the endpoint getProvider tests
    tried,         \* history: the endpoints the current getProvider call tested
    provider,      \* the endpoint of the provider getProvider returned, 0 if none
    attempted,     \* history: the vaults whose loop body was entered, in order
    connectFailed, \* history: the vaults (0 for the deposit run) getProvider threw for
    exitCode       \* process.exit code, -1 while the process has not exited

runVars == <<rpc, vault, endpoint, tried, provider, attempted, connectFailed,
             exitCode>>

vars == <<fetchVars, pipeVars, saveVars, runVars>>

Min(a, b) == IF a <= b THEN a ELSE b

\* Math.ceil(a / b) for an integer a and b >= 1
MathCeilDiv(a, b) == IF a % b = 0 THEN a \div b ELSE (a \div b) + 1

RECURSIVE FlattenNonEmpty(_)
FlattenNonEmpty(ss) ==
    IF ss = <<>> THEN <<>> ELSE Head(ss) \o FlattenNonEmpty(Tail(ss))

\* the concatenation of the lists of ss; empty lists add nothing and are
\* left out first, so that a long run of empty chunks costs no recursion
Flatten(ss) == FlattenNonEmpty(SelectSeq(ss, LAMBDA x : Len(x) > 0))

(***************************************************************************)
(* Text.  A JavaScript string is a sequence of one-character strings.      *)
(* Topic words and addresses keep their layout ("0x", left padding,        *)
(* address in the low-order digits) at a reduced width: WordLen hex digits *)
(* stand for the 64 of a 32-byte word, AddrLen for the 40 of an address.   *)
(***************************************************************************)
HexDigits == <<"0", "1", "2", "3", "4", "5", "6", "7",
               "8", "9", "a", "b", "c", "d", "e", "f">>

UpperLetters == {"A", "B", "C", "D", "E", "F"}

LowerLetters == {"a", "b", "c", "d", "e", "f"}

DecimalChars == {"0", "1", "2", "3", "4", "5", "6", "7", "8", "9"}

ToLowerChar(c) ==
    CASE c = "A" -> "a" [] c = "B" -> "b" [] c = "C" -> "c"
      [] c = "D" -> "d" [] c = "E" -> "e" [] c = "F" -> "f"
      [] c = "X" -> "x" [] OTHER -> c

ToUpperChar(c) ==
    CASE c = "a" -> "A" [] c = "b" -> "B" [] c = "c" -> "C"
      [] c = "d" -> "D" [] c = "e" -> "E" [] c = "f" -> "F"
      [] c = "x" -> "X" [] OTHER -> c

\* String.prototype.toLowerCase
ToLowerCase(s) == [k \in 1..Len(s) |-> ToLowerChar(s[k])]

IsHexChar(c) == \E v \in 1..16 : HexDigits[v] = ToLowerChar(c)

HexVal(c) == (CHOOSE v \in 1..16 : HexDigits[v] = ToLowerChar(c)) - 1

IsHexString(s) == \A k \in 1..Len(s) : IsHexChar(s[k])

\* s.slice(-n)
SliceLast(s, n) ==
    IF Len(s) <= n THEN s ELSE SubSeq(s, Len(s) - n + 1, Len(s))

\* s.slice(a, b) for 0 <= a <= b
Slice(s, a, b) == SubSeq(s, a + 1, Min(b, Len(s)))

\* s.slice(a) for a >= 0
SliceFrom(s, a) == SubSeq(s, a + 1, Len(s))

RECURSIVE ParseHexDigits(_, _)
ParseHexDigits(s, acc) ==
    IF s = <<>> THEN acc
    ELSE ParseHexDigits(Tail(s), acc * 16 + HexVal(Head(s)))

RECURSIVE ParseDecimalDigits(_, _)
ParseDecimalDigits(s, acc) ==
    IF s = <<>> THEN acc
    ELSE ParseDecimalDigits(Tail(s), acc * 10 + HexVal(Head(s)))

IsDecimalString(s) == s # <<>> /\ \A k \in 1..Len(s) : s[k] \in DecimalChars

Thrown == [ok |-> FALSE, val |-> 0]

Value(v) == [ok |-> TRUE, val |-> v]

\* BigInt(string): an empty string is 0n, "0x" starts hexadecimal digits,
\* otherwise a decimal literal with an optional sign; anything else throws
\* a SyntaxError.  No wrap-around: a BigInt has no width.
BigIntOfString(s) ==
    IF s = <<>> THEN Value(0)
    ELSE IF Len(s) >= 2 /\ s[1] = "0" /\ s[2] \in {"x", "X"}
    THEN IF Len(s) > 2 /\ IsHexString(SliceFrom(s, 2))
         THEN Value(ParseHexDigits(SliceFrom(s, 2), 0))
         ELSE Thrown
    ELSE IF s[1] \in {"-", "+"}
    THEN IF IsDecimalString(Tail(s))
         THEN Value((IF s[1] = "-" THEN -1 ELSE 1)
                       * ParseDecimalDigits(Tail(s), 0))
         ELSE Thrown
    ELSE IF IsDecimalString(s)
    THEN Value(ParseDecimalDigits(s, 0))
    ELSE Thrown

RECURSIVE NatToDecimal(_)
NatToDecimal(n) ==
    IF n < 10 THEN <<HexDigits[n + 1]>>
    ELSE Append(NatToDecimal(n \div 10), HexDigits[(n % 10) + 1])

\* BigInt.prototype.toString()
BigIntToString(n) ==
    IF n < 0 THEN <<"-">> \o NatToDecimal(-n) ELSE NatToDecimal(n)

(***************************************************************************)
(* ethers.getAddress: the EIP-55 checksum form of an address.  The case of *)
(* each letter is decided by a hash of the lower-case address; the hash is *)
(* modelled by a fixed function of the digits.                             *)
(***************************************************************************)
AddrLen == 3
WordLen == 5

RECURSIVE DigitSum(_)
DigitSum(s) == IF s = <<>> THEN 0 ELSE HexVal(Head(s)) + DigitSum(Tail(s))

\* the hash nibble that decides the case of the k-th digit
ChecksumNibble(digits, k) == (7 * DigitSum(digits) + 5 * k + HexVal(digits[k])) % 16

ChecksumDigits(digits) ==
    [k \in 1..Len(digits) |->
        IF ChecksumNibble(ToLowerCase(digits), k) >= 8
        THEN ToUpperChar(ToLowerChar(digits[k]))
        ELSE ToLowerChar(digits[k])]

HasUpper(s) == \E k \in 1..Len(s) : s[k] \in UpperLetters

HasLower(s) == \E k \in 1..Len(s) : s[k] \in LowerLetters

NoAddress == [ok |-> FALSE, val |-> <<>>]

\* ethers.getAddress(text): text must be "0x" and AddrLen hex digits; a
\* mixed-case text must carry the right checksum; the result is the
\* checksum form.
GetAddress(text) ==
    LET digits == SliceFrom(text, 2)
    IN  IF /\ Len(text) = 2 + AddrLen
           /\ text[1] = "0" /\ text[2] = "x"
           /\ IsHexString(digits)
        THEN IF HasUpper(digits) /\ HasLower(digits)
                /\ ChecksumDigits(digits) # digits
             THEN NoAddress
             ELSE [ok |-> TRUE, val |-> <<"0", "x">> \o ChecksumDigits(digits)]
        ELSE NoAddress

(***************************************************************************)
(* ethers.id(signature): the topic-0 hashes, named by their leading bytes. *)
(***************************************************************************)
Zeros(n) == [k \in 1..n |-> "0"]

PadLeft(digits, n) == Zeros(n - Len(digits)) \o digits

Str0x(digits) == <<"0", "x">> \o digits

TopicTransfer == Str0x(PadLeft(<<"d", "d">>, WordLen))

TopicDeposit == Str0x(PadLeft(<<"d", "c">>, WordLen))

TopicWithdraw == Str0x(PadLeft(<<"f", "b">>, WordLen))

TopicDepositProcessed == Str0x(PadLeft(<<"5", "5">>, WordLen))

\* the topics filter of the getLogs request of each script
FilterTopics(s) ==
    IF s = "vault"
    THEN <<{TopicTransfer, TopicDeposit, TopicWithdraw}>>
    ELSE <<{TopicDepositProcessed}>>

(***************************************************************************)
(* getVaultEvents / getDepositProcessedEvents: the loop's arithmetic.      *)
(***************************************************************************)
TotalChunksFloor(f, t, cs) == (t - f + 1) \div cs

TotalChunks(f, t, cs) == MathCeilDiv(t - f + 1, cs)

ChunkFromBlock(f, idx, cs) == f + (idx * cs)

ChunkToBlockNoClamp(cf, cs, t) == cf + cs - 1

ChunkToBlock(cf, cs, t) == Min(cf + cs - 1, t)

ConcatPrepend(all, chunk) == chunk \o all

Concat(all, chunk) == all \o chunk

\* the catch branch of get...EventsForRange: return []
RangeCatchUndefined == <<[undefined |-> TRUE]>>

RangeCatch == <<>>

(***************************************************************************)
(* The Log Source: what provider.getLogs may answer for a range.           *)
(***************************************************************************)
RawLogAt(b, k) == [blockNumber |-> b, logIndex |-> k]

IsDocRun == fromBlock = DocFromBlock

LogSourceAnswers(cf, ct) ==
    IF IsDocRun THEN {<<>>}
    ELSE { <<>>,
           <<RawLogAt(cf, 0)>>,
           <<RawLogAt(cf, 0), RawLogAt(ct, 1)>>,
           <<RawLogAt(ct, 0), RawLogAt(cf, 1)>>,
           <<RawLogAt(ct + 1, 0)>> }

InitFetch ==
    /\ script \in {"vault", "deposit"}
    /\ \/ /\ fromBlock \in 0..MaxFromBlock
          /\ chunkSize \in 1..MaxChunkSize
          /\ \E span \in 0..(MaxSpan + 1) :
                toBlock \in {fromBlock + span - 1}
          /\ toBlockLatest = FALSE
       \/ /\ fromBlock \in 0..MaxFromBlock
          /\ chunkSize \in 1..MaxChunkSize
          /\ toBlock = 0
          /\ toBlockLatest = TRUE
       \/ /\ fromBlock = DocFromBlock
          /\ toBlock = DocToBlock
          /\ toBlockLatest = FALSE
          /\ chunkSize = DocChunkSize
    /\ totalChunks = 0
    /\ i = 0
    /\ pc = "start"
    /\ outstanding = {}
    /\ allEvents = <<>>
    /\ requests = <<>>
    /\ chunkResults = <<>>

\* saveUserBalances has not been called
SaveIdle ==
    /\ vaultAddress = <<>>
    /\ userBalances = <<>>
    /\ files = <<>>
    /\ summary = <<>>

\* main is not followed
RunIdle ==
    /\ rpc = "idle"
    /\ vault = 0
    /\ endpoint = 0
    /\ tried = <<>>
    /\ provider = 0
    /\ attempted = <<>>
    /\ connectFailed = {}
    /\ exitCode = -1

\* the variables of main after the fetch, while only the fetch loop runs
PipeIdle ==
    /\ collation = "icu"
    /\ events = <<>>
    /\ ppc = "idle"
    /\ pos = 0
    /\ formattedEvents = <<>>
    /\ grouped = <<>>
    /\ groupedEvents = <<>>
    /\ runningBalance = 0
    /\ balanceHistory = <<>>

\* lines 78-80: toBlock === 'latest' -> await provider.getBlockNumber()
AskLatest ==
    /\ pc = "start"
    /\ toBlockLatest
    /\ pc' = "latest"
    /\ outstanding' = outstanding \cup {[method |-> "getBlockNumber"]}
    /\ UNCHANGED <<pipeVars, saveVars, runVars>>
    /\ UNCHANGED <<script, fromBlock, toBlock, toBlockLatest, chunkSize, totalChunks, i,
                   allEvents, requests, chunkResults>>

LatestResolves ==
    /\ pc = "latest"
    /\ \E span \in 0..(MaxSpan + 1) : toBlock' = fromBlock + span - 1
    /\ toBlockLatest' = FALSE
    /\ outstanding' = outstanding \ {[method |-> "getBlockNumber"]}
    /\ pc' = "start"
    /\ UNCHANGED <<pipeVars, saveVars, runVars>>
    /\ UNCHANGED <<script, fromBlock, chunkSize, totalChunks, i,
                   allEvents, requests, chunkResults>>

\* getBlockNumber rejects: the error leaves the function
LatestRejects ==
    /\ pc = "latest"
    /\ outstanding' = outstanding \ {[method |-> "getBlockNumber"]}
    /\ pc' = "thrown"
    /\ UNCHANGED <<pipeVars, saveVars, runVars>>
    /\ UNCHANGED <<script, fromBlock, toBlock, toBlockLatest, chunkSize, totalChunks, i,
                   allEvents, requests, chunkResults>>

\* lines 82-88: totalBlocks, totalChunks, allEvents = [], i = 0
EnterLoop ==
    /\ pc = "start"
    /\ ~toBlockLatest
    /\ totalChunks' = TotalChunks(fromBlock, toBlock, chunkSize)
    /\ allEvents' = <<>>
    /\ i' = 0
    /\ pc' = "loop"
    /\ UNCHANGED <<pipeVars, saveVars, runVars>>
    /\ UNCHANGED <<script, fromBlock, toBlock, toBlockLatest, chunkSize, outstanding,
                   requests, chunkResults>>

CurrentRequest ==
    LET cf == ChunkFromBlock(fromBlock, i, chunkSize)
    IN  [method |-> "getLogs",
         fromBlock |-> cf,
         toBlock |-> ChunkToBlock(cf, chunkSize, toBlock),
         topics |-> FilterTopics(script)]

\* loop head with i < totalChunks: the body calls get...EventsForRange,
\* which sends provider.getLogs and awaits it
IssueGetLogs ==
    /\ pc = "loop"
    /\ i < totalChunks
    /\ outstanding' = outstanding \cup {CurrentRequest}
    /\ requests' = Append(requests, CurrentRequest)
    /\ pc' = "awaiting"
    /\ UNCHANGED <<pipeVars, saveVars, runVars>>
    /\ UNCHANGED <<script, fromBlock, toBlock, toBlockLatest, chunkSize, totalChunks, i,
                   allEvents, chunkResults>>

\* after the await: concat, then the delay unless this was the last chunk
AfterChunk(chunkEvents) ==
    /\ allEvents' = Concat(allEvents, chunkEvents)
    /\ IF i < totalChunks - 1
       THEN pc' = "delay" /\ i' = i
       ELSE pc' = "loop" /\ i' = i + 1

\* getLogs resolves: get...EventsForRange returns the logs
GetLogsResolves ==
    /\ pc = "awaiting"
    /\ \E req \in outstanding :
          /\ req.method = "getLogs"
          /\ outstanding' = outstanding \ {req}
          /\ \E logs \in LogSourceAnswers(req.fromBlock, req.toBlock) :
                /\ chunkResults' = Append(chunkResults,
                                          [ok |-> TRUE, logs |-> logs])
                /\ AfterChunk(logs)
    /\ UNCHANGED <<pipeVars, saveVars, runVars>>
    /\ UNCHANGED <<script, fromBlock, toBlock, toBlockLatest, chunkSize, totalChunks,
                   requests>>

\* getLogs rejects: the catch of get...EventsForRange returns []
GetLogsRejects ==
    /\ pc = "awaiting"
    /\ ~IsDocRun
    /\ \E req \in outstanding :
          /\ req.method = "getLogs"
          /\ outstanding' = outstanding \ {req}
          /\ chunkResults' = Append(chunkResults,
                                    [ok |-> FALSE, logs |-> <<>>])
          /\ AfterChunk(RangeCatch)
    /\ UNCHANGED <<pipeVars, saveVars, runVars>>
    /\ UNCHANGED <<script, fromBlock, toBlock, toBlockLatest, chunkSize, totalChunks,
                   requests>>

\* the 100 ms timer fires; i++
DelayElapsed ==
    /\ pc = "delay"
    /\ i' = i + 1
    /\ pc' = "loop"
    /\ UNCHANGED <<pipeVars, saveVars, runVars>>
    /\ UNCHANGED <<script, fromBlock, toBlock, toBlockLatest, chunkSize, totalChunks,
                   outstanding, allEvents, requests, chunkResults>>

\* loop head with i >= totalChunks: return allEvents
ReturnAllEvents ==
    /\ pc = "loop"
    /\ ~(i < totalChunks)
    /\ pc' = "done"
    /\ UNCHANGED <<pipeVars, saveVars, runVars>>
    /\ UNCHANGED <<script, fromBlock, toBlock, toBlockLatest, chunkSize, totalChunks, i,
                   outstanding, allEvents, requests, chunkResults>>

NextFetch ==
    \/ AskLatest
    \/ LatestResolves
    \/ LatestRejects
    \/ EnterLoop
    \/ IssueGetLogs
    \/ GetLogsResolves
    \/ GetLogsRejects
    \/ DelayElapsed
    \/ ReturnAllEvents

(***************************************************************************)
(* Properties of the chunked fetch loop.                                   *)
(***************************************************************************)
GetLogsOutstanding == {r \in outstanding : r.method = "getLogs"}

ResultLogs == [k \in 1..Len(chunkResults) |-> chunkResults[k].logs]

\* the logs of the answers that did not fail, in chunk order
OkLogs(rs) ==
    Flatten([k \in 1..Len(rs) |-> IF rs[k].ok THEN rs[k].logs ELSE <<>>])

\* every answer so far holds only logs of the range that was asked for
AllInRange ==
    \A k \in 1..Len(chunkResults) :
        \A j \in 1..Len(chunkResults[k].logs) :
            /\ chunkResults[k].logs[j].blockNumber >= requests[k].fromBlock
            /\ chunkResults[k].logs[j].blockNumber <= requests[k].toBlock

\* the chunk (1-based) the p-th element of the accumulated list came from
RECURSIVE ChunkOf(_, _, _)
ChunkOf(p, k, before) ==
    IF p <= before + Len(chunkResults[k].logs) THEN k
    ELSE ChunkOf(p, k + 1, before + Len(chunkResults[k].logs))

\* C1: at most one getLogs request is outstanding; chunk i is requested only
\* once the answer to chunk i-1 has been appended; the accumulated list is
\* the concatenation of the chunk results in chunk order; and when every
\* answer stays inside its range, blockNumber never decreases from one chunk
\* to a later one.
C1_SequentialInOrder ==
    /\ Cardinality(GetLogsOutstanding) <= 1
    /\ Cardinality(GetLogsOutstanding) = 1 <=> pc = "awaiting"
    /\ Len(requests) = Len(chunkResults) + Cardinality(GetLogsOutstanding)
    /\ pc \in {"loop", "awaiting", "delay", "done"} =>
          allEvents = Flatten(ResultLogs)
    /\ (pc \in {"loop", "awaiting", "delay", "done"} /\ AllInRange) =>
          \A p, q \in 1..Len(allEvents) :
              ChunkOf(p, 1, 0) < ChunkOf(q, 1, 0) =>
                  allEvents[p].blockNumber <= allEvents[q].blockNumber

C1_Witness ==
    /\ pc = "done"
    /\ AllInRange
    /\ Len(chunkResults) >= 3
    /\ Len(chunkResults[1].logs) = 2
    /\ Len(chunkResults[2].logs) = 2
    /\ Len(chunkResults[3].logs) = 1
    /\ chunkResults[2].logs[1].blockNumber > chunkResults[2].logs[2].blockNumber

\* C2: a failing getLogs contributes nothing, what was accumulated stays,
\* every remaining chunk is still requested and the function returns: the
\* result is exactly the concatenation of the non-failing answers.
C2_FailedChunkIsEmpty ==
    /\ pc \in {"loop", "awaiting", "delay", "done"} =>
          allEvents = OkLogs(chunkResults)
    /\ pc = "done" =>
          /\ Len(requests) = totalChunks
          /\ Len(chunkResults) = totalChunks
    /\ pc = "thrown" => requests = <<>>

C2_Witness ==
    /\ pc = "done"
    /\ Len(chunkResults) >= 4
    /\ chunkResults[1].ok /\ chunkResults[1].logs # <<>>
    /\ ~chunkResults[2].ok
    /\ chunkResults[3].ok /\ chunkResults[3].logs # <<>>
    /\ ~chunkResults[4].ok
    /\ Len(allEvents) = Len(chunkResults[1].logs) + Len(chunkResults[3].logs)

\* the number of chunks of cs blocks needed to cover n >= 1 blocks
IsChunkCount(n, blocks, cs) == (n - 1) * cs < blocks /\ blocks <= n * cs

\* C3: for fromBlock <= toBlock and chunkSize >= 1 the loop issues exactly
\* ceil((toBlock - fromBlock + 1) / chunkSize) requests and returns; the
\* requests start at fromBlock, end at toBlock, hold at most chunkSize blocks
\* each and follow one another without gap or overlap (223 requests for the
\* documented range).
C3_ChunksPartitionRange ==
    (~toBlockLatest /\ fromBlock <= toBlock) =>
        /\ \A k \in 1..Len(requests) :
              /\ requests[k].fromBlock <= requests[k].toBlock
              /\ requests[k].toBlock - requests[k].fromBlock + 1 <= chunkSize
              /\ requests[k].toBlock <= toBlock
              /\ k = 1 => requests[k].fromBlock = fromBlock
              /\ k > 1 => requests[k].fromBlock = requests[k - 1].toBlock + 1
        /\ pc \in {"loop", "awaiting", "delay", "done"} =>
              /\ IsChunkCount(totalChunks, toBlock - fromBlock + 1, chunkSize)
              /\ Len(requests) <= totalChunks
        /\ pc = "done" =>
              /\ Len(requests) = totalChunks
              /\ requests[Len(requests)].toBlock = toBlock
              /\ outstanding = {}
              /\ IsDocRun => Len(requests) = DocChunks

C3_Witness ==
    /\ pc = "done"
    /\ IsDocRun
    /\ Len(requests) = DocChunks
    /\ requests[DocChunks].toBlock = DocToBlock
    /\ requests[DocChunks].toBlock - requests[DocChunks].fromBlock + 1
          < DocChunkSize

Init == InitFetch /\ PipeIdle /\ SaveIdle /\ RunIdle

Next == NextFetch

Spec == Init /\ [][Next]_vars

(***************************************************************************)
(* Raw logs as the Log Source encodes them: an address left-padded into a  *)
(* topic word, a uint256 as a word.                                        *)
(***************************************************************************)
RECURSIVE NatToHex(_)
NatToHex(n) ==
    IF n < 16 THEN <<HexDigits[n + 1]>>
    ELSE Append(NatToHex(n \div 16), HexDigits[(n % 16) + 1])

RECURSIVE Pow16(_)
Pow16(n) == IF n = 0 THEN 1 ELSE 16 * Pow16(n - 1)

\* the largest value a word holds
MaxWord == Pow16(WordLen) - 1

WordDigits(n) == PadLeft(NatToHex(n), WordLen)

EncodeWord(n) == Str0x(WordDigits(n))

AddressTopic(digits) == Str0x(PadLeft(digits, WordLen))

ToUpperCase(s) == [k \in 1..Len(s) |-> ToUpperChar(s[k])]

RawLog(topics, data, blockNumber, transactionHash) ==
    [topics |-> topics, data |-> data, blockNumber |-> blockNumber,
     transactionHash |-> transactionHash]

\* DepositProcessed(asset, user, amount) with chainId and referral in data
DepositProcessedLog(asset, user, amount, data) ==
    RawLog(<<TopicDepositProcessed, AddressTopic(asset), AddressTopic(user),
             EncodeWord(amount)>>, data, 0, "0xd")

(***************************************************************************)
(* formatEvents of the DepositProcessed script.                            *)
(***************************************************************************)
Skipped(why) == [outcome |-> why, out |-> <<>>]

Pushed(record) == [outcome |-> "push", out |-> <<record>>]

\* the topic count the decoder asks for
MinTopics == 4

\* one pass of the loop body: the record pushed, or why there is none
FormatDepositAbortOnError(event) ==
    LET topics == event.topics
    IN  IF Len(topics) >= MinTopics
        THEN LET asset == GetAddress(Str0x(SliceLast(topics[2], AddrLen)))
                 user == GetAddress(Str0x(SliceLast(topics[3], AddrLen)))
                 amountHex == SliceFrom(topics[4], 2)
                 amount == BigIntOfString(Str0x(amountHex))
             IN  IF ~asset.ok \/ ~user.ok \/ ~amount.ok
                 THEN [outcome |-> "abort", out |-> <<>>]
                 ELSE Pushed([asset |-> asset.val, user |-> user.val,
                              amount |-> BigIntToString(amount.val)])
        ELSE Skipped("few topics")

FormatDepositMoreThanFour(event) ==
    LET topics == event.topics
    IN  IF Len(topics) > MinTopics
        THEN LET asset == GetAddress(Str0x(SliceLast(topics[2], AddrLen)))
                 user == GetAddress(Str0x(SliceLast(topics[3], AddrLen)))
                 amountHex == SliceFrom(topics[4], 2)
                 amount == BigIntOfString(Str0x(amountHex))
             IN  IF ~asset.ok \/ ~user.ok THEN Skipped("caught")
                 ELSE IF ~amount.ok THEN Skipped("bad amount")
                 ELSE Pushed([asset |-> asset.val, user |-> user.val,
                              amount |-> BigIntToString(amount.val)])
        ELSE Skipped("few topics")

FormatDepositAmountFromData(event) ==
    LET topics == event.topics
    IN  IF Len(topics) >= MinTopics
        THEN LET asset == GetAddress(Str0x(SliceLast(topics[2], AddrLen)))
                 user == GetAddress(Str0x(SliceLast(topics[3], AddrLen)))
                 amountHex == Slice(SliceFrom(event.data, 2), 0, WordLen)
                 amount == BigIntOfString(Str0x(amountHex))
             IN  IF ~asset.ok \/ ~user.ok THEN Skipped("caught")
                 ELSE IF ~amount.ok THEN Skipped("bad amount")
                 ELSE Pushed([asset |-> asset.val, user |-> user.val,
                              amount |-> BigIntToString(amount.val)])
        ELSE Skipped("few topics")

FormatDepositEvent(event) ==
    LET topics == event.topics
    IN  IF Len(topics) >= MinTopics
        THEN LET asset == GetAddress(Str0x(SliceLast(topics[2], AddrLen)))
                 user == GetAddress(Str0x(SliceLast(topics[3], AddrLen)))
                 amountHex == SliceFrom(topics[4], 2)
                 amount == BigIntOfString(Str0x(amountHex))
             IN  IF ~asset.ok \/ ~user.ok THEN Skipped("caught")
                 ELSE IF ~amount.ok THEN Skipped("bad amount")
                 ELSE Pushed([asset |-> asset.val, user |-> user.val,
                              amount |-> BigIntToString(amount.val)])
        ELSE Skipped("few topics")

(***************************************************************************)
(* The raw logs the DepositProcessed decoder is run on.                    *)
(***************************************************************************)
MaxBatch == 3

AddrA == PadLeft(<<"a", "b">>, AddrLen)

AddrB == PadLeft(<<"d", "a">>, AddrLen)

AddrC == PadLeft(<<"0", "e">>, AddrLen)

Addresses == {AddrA, AddrB, AddrC}

AmountSamples == {0, 1, 9, 10, 15, 16, 255, 256, MaxWord - 1, MaxWord}

DataSamples ==
    { <<"0", "x">>,
      Str0x(WordDigits(1) \o PadLeft(AddrA, WordLen)),
      Str0x(WordDigits(MaxWord) \o PadLeft(AddrC, WordLen)) }

\* a text that is no address: mixed case that is not the checksum form
BadChecksum(digits) ==
    LET lower == ToLowerCase(digits)
        letters == {j \in 1..Len(digits) : lower[j] \in LowerLetters}
        k1 == CHOOSE j \in letters : \A l \in letters : j <= l
        k2 == CHOOSE j \in letters : \A l \in letters : j >= l
        upperAt(k) == [lower EXCEPT ![k] = ToUpperChar(lower[k])]
    IN  IF upperAt(k2) # ChecksumDigits(digits)
        THEN upperAt(k2) ELSE upperAt(k1)

UnknownTopic == Str0x(PadLeft(<<"9", "9">>, WordLen))

DepositSamples ==
    LET good == DepositProcessedLog(AddrA, AddrB, 1, <<"0", "x">>)
    IN  { good,
          DepositProcessedLog(AddrC, AddrA, MaxWord,
                              Str0x(WordDigits(1) \o PadLeft(AddrA, WordLen))),
          DepositProcessedLog(AddrA, AddrB, MaxWord, <<"0", "x">>),
          DepositProcessedLog(AddrC, AddrB, 0, <<"0", "x">>),
          \* five topics, upper-case hex digits
          [good EXCEPT !.topics =
              <<TopicDepositProcessed,
                Str0x(ToUpperCase(PadLeft(AddrA, WordLen))),
                AddressTopic(AddrA), EncodeWord(255), EncodeWord(0)>>],
          \* a signature hash the decoder does not support
          [good EXCEPT !.topics[1] = UnknownTopic, !.topics[4] = EncodeWord(7)],
          \* fewer than four topics
          [good EXCEPT !.topics = SubSeq(good.topics, 1, 3)],
          \* topics that do not parse
          [good EXCEPT !.topics[2] = Str0x(PadLeft(<<"g", "1">>, WordLen))],
          [good EXCEPT !.topics[4] = <<"0", "x">>],
          [good EXCEPT !.topics[2] =
              Str0x(Zeros(WordLen - AddrLen) \o BadChecksum(AddrA))] }

RECURSIVE SeqsUpTo(_, _)
SeqsUpTo(S, n) ==
    IF n = 0 THEN {<<>>}
    ELSE LET shorter == SeqsUpTo(S, n - 1)
         IN  shorter \cup {Append(q, x) : q \in shorter, x \in S}

\* the fetch is over: main goes on with the events it returned
FetchIdle(s) ==
    /\ script = s
    /\ fromBlock = 0
    /\ toBlock = 0
    /\ toBlockLatest = FALSE
    /\ chunkSize = 1
    /\ totalChunks = 0
    /\ i = 0
    /\ pc = "done"
    /\ outstanding = {}
    /\ allEvents = <<>>
    /\ requests = <<>>
    /\ chunkResults = <<>>

InitDeposit ==
    /\ FetchIdle("deposit")
    /\ collation \in {"icu", "codeunit"}
    /\ \/ events \in SeqsUpTo(DepositSamples, MaxBatch)
       \/ \E asset \in Addresses, user \in Addresses,
             amount \in AmountSamples, data \in DataSamples :
                events = <<DepositProcessedLog(asset, user, amount, data)>>
    /\ ppc = "main"
    /\ pos = 0
    /\ formattedEvents = <<>>
    /\ grouped = <<>>
    /\ groupedEvents = <<>>
    /\ runningBalance = 0
    /\ balanceHistory = <<>>
    /\ SaveIdle
    /\ RunIdle

\* main: if (events.length === 0) return; else formatEvents(events)
MainChecksEvents ==
    /\ ppc = "main"
    /\ ppc' = IF Len(events) = 0 THEN "returned" ELSE "format"
    /\ pos' = 0
    /\ formattedEvents' = <<>>
    /\ UNCHANGED <<collation, events, grouped, groupedEvents, runningBalance,
                   balanceHistory>>
    /\ UNCHANGED <<fetchVars, saveVars, runVars>>

\* formatEvents: one pass of for (const event of events)
FormatDepositStep ==
    /\ ppc = "format"
    /\ script = "deposit"
    /\ pos < Len(events)
    /\ LET r == FormatDepositEvent(events[pos + 1])
       IN  IF r.outcome = "abort"
           THEN /\ ppc' = "thrown"
                /\ UNCHANGED <<pos, formattedEvents>>
           ELSE /\ formattedEvents' = formattedEvents \o r.out
                /\ pos' = pos + 1
                /\ ppc' = ppc
    /\ UNCHANGED <<collation, events, grouped, groupedEvents, runningBalance,
                   balanceHistory>>
    /\ UNCHANGED <<fetchVars, saveVars, runVars>>

\* formatEvents: return formattedEvents
FormatDepositReturn ==
    /\ ppc = "format"
    /\ script = "deposit"
    /\ pos = Len(events)
    /\ ppc' = "formatted"
    /\ UNCHANGED <<collation, events, pos, formattedEvents, grouped,
                   groupedEvents, runningBalance, balanceHistory>>
    /\ UNCHANGED <<fetchVars, saveVars, runVars>>

(***************************************************************************)
(* String.prototype.localeCompare.  Its order is the collation of the      *)
(* runtime: ICU collation (digits before letters, letters in alphabetical  *)
(* order whatever their case, lower case before upper case only to break a *)
(* tie), or plain code unit order in a build without Intl.                 *)
(***************************************************************************)
CharCode(c) ==
    CASE c \in DecimalChars -> 48 + HexVal(c)
      [] c \in UpperLetters -> 65 + HexVal(c) - 10
      [] c \in LowerLetters -> 97 + HexVal(c) - 10
      [] c = "-" -> 45
      [] c = "X" -> 88
      [] c = "g" -> 103
      [] c = "x" -> 120
      [] OTHER -> 0

\* the primary weight of a character: its letter or digit, case apart
PrimaryWeight(c) ==
    CASE c \in DecimalChars -> 10 + HexVal(c)
      [] IsHexChar(c) -> 20 + HexVal(c)
      [] c = "g" -> 36
      [] c \in {"x", "X"} -> 53
      [] OTHER -> 0

\* the tertiary weight: lower case before upper case
CaseWeight(c) == IF c \in UpperLetters \cup {"X"} THEN 1 ELSE 0

RECURSIVE CompareBy(_, _, _)
\* lexicographic comparison of the weights W[c]: -1, 0 or 1
CompareBy(a, b, W) ==
    IF a = <<>> /\ b = <<>> THEN 0
    ELSE IF a = <<>> THEN -1
    ELSE IF b = <<>> THEN 1
    ELSE IF W[Head(a)] < W[Head(b)] THEN -1
    ELSE IF W[Head(a)] > W[Head(b)] THEN 1
    ELSE CompareBy(Tail(a), Tail(b), W)

Chars(a, b) == {a[k] : k \in 1..Len(a)} \cup {b[k] : k \in 1..Len(b)}

CodeUnitCompare(a, b) ==
    CompareBy(a, b, [c \in Chars(a, b) |-> CharCode(c)])

IcuCompare(a, b) ==
    LET primary == CompareBy(a, b, [c \in Chars(a, b) |-> PrimaryWeight(c)])
    IN  IF primary # 0 THEN primary
        ELSE CompareBy(a, b, [c \in Chars(a, b) |-> CaseWeight(c)])

LocaleCompare(a, b) ==
    IF collation = "icu" THEN IcuCompare(a, b) ELSE CodeUnitCompare(a, b)

(***************************************************************************)
(* groupEventsByUserAndAsset.                                              *)
(***************************************************************************)
GroupKey(event) == event.user \o <<"-">> \o event.asset

HasKey(obj, key) == \E k \in 1..Len(obj) : obj[k].key = key

KeyIndex(obj, key) == CHOOSE k \in 1..Len(obj) : obj[k].key = key

\* the sum of two decimal strings, as a decimal string
AddAmountsWrapped(existing, new) ==
    BigIntToString((BigIntOfString(existing).val + BigIntOfString(new).val)
                      % (MaxWord + 1))

AddAmounts(existing, new) ==
    BigIntToString(BigIntOfString(existing).val + BigIntOfString(new).val)

\* one pass of the loop body on the object grouped
GroupAdd(obj, event) ==
    LET key == GroupKey(event)
    IN  IF HasKey(obj, key)
        THEN [obj EXCEPT ![KeyIndex(obj, key)].value.amount =
                            AddAmounts(@, event.amount)]
        ELSE Append(obj, [key |-> key,
                          value |-> [user |-> event.user,
                                     asset |-> event.asset,
                                     amount |-> event.amount]])

\* Object.values(grouped): the values in insertion order
ObjectValues(obj) == [k \in 1..Len(obj) |-> obj[k].value]

CompareGroupedAssetFirst(a, b) ==
    IF a.asset # b.asset
    THEN LocaleCompare(a.asset, b.asset)
    ELSE LocaleCompare(a.user, b.user)

\* the comparator passed to sort
CompareGrouped(a, b) ==
    IF a.user # b.user
    THEN LocaleCompare(a.user, b.user)
    ELSE LocaleCompare(a.asset, b.asset)

\* x placed behind the elements of the sorted list that do not come after it
InsertGrouped(sorted, x) ==
    LET after == {k \in 1..Len(sorted) : CompareGrouped(sorted[k], x) > 0}
        at == IF after = {} THEN Len(sorted) + 1
              ELSE CHOOSE k \in after : \A j \in after : k <= j
    IN  SubSeq(sorted, 1, at - 1) \o <<x>> \o SubSeq(sorted, at, Len(sorted))

RECURSIVE SortGroupedFrom(_, _)
SortGroupedFrom(sorted, rest) ==
    IF rest = <<>> THEN sorted
    ELSE SortGroupedFrom(InsertGrouped(sorted, Head(rest)), Tail(rest))

\* Array.prototype.sort with CompareGrouped (a stable sort)
SortGroupedUnsorted(values) == values

SortGrouped(values) == SortGroupedFrom(<<>>, values)

RECURSIVE GroupAll(_, _)
GroupAll(obj, evs) ==
    IF evs = <<>> THEN obj ELSE GroupAll(GroupAdd(obj, Head(evs)), Tail(evs))

\* the function as a whole
GroupEventsByUserAndAsset(evs) == SortGrouped(ObjectValues(GroupAll(<<>>, evs)))

\* main: groupEventsByUserAndAsset(formattedEvents) is entered
GroupEnter ==
    /\ ppc = "formatted"
    /\ script = "deposit"
    /\ ppc' = "group"
    /\ pos' = 0
    /\ grouped' = <<>>
    /\ UNCHANGED <<collation, events, formattedEvents, groupedEvents,
                   runningBalance, balanceHistory>>
    /\ UNCHANGED <<fetchVars, saveVars, runVars>>

\* one pass of for (const event of events)
GroupStep ==
    /\ ppc = "group"
    /\ pos < Len(formattedEvents)
    /\ grouped' = GroupAdd(grouped, formattedEvents[pos + 1])
    /\ pos' = pos + 1
    /\ UNCHANGED <<collation, events, ppc, formattedEvents, groupedEvents,
                   runningBalance, balanceHistory>>
    /\ UNCHANGED <<fetchVars, saveVars, runVars>>

\* return Object.values(grouped).sort(...)
GroupReturn ==
    /\ ppc = "group"
    /\ pos = Len(formattedEvents)
    /\ groupedEvents' = SortGrouped(ObjectValues(grouped))
    /\ ppc' = "grouped"
    /\ UNCHANGED <<collation, events, pos, formattedEvents, grouped,
                   runningBalance, balanceHistory>>
    /\ UNCHANGED <<fetchVars, saveVars, runVars>>

NextDeposit ==
    \/ MainChecksEvents
    \/ FormatDepositStep
    \/ FormatDepositReturn
    \/ GroupEnter
    \/ GroupStep
    \/ GroupReturn

SpecDeposit == InitDeposit /\ [][NextDeposit]_vars

(***************************************************************************)
(* formatEvents of the vault script.                                       *)
(***************************************************************************)
TransferLog(from, to, value, blockNumber) ==
    RawLog(<<TopicTransfer, AddressTopic(from), AddressTopic(to)>>,
           EncodeWord(value), blockNumber, "0xt")

DepositLog(caller, owner, assets, shares, blockNumber) ==
    RawLog(<<TopicDeposit, AddressTopic(caller), AddressTopic(owner)>>,
           Str0x(WordDigits(assets) \o WordDigits(shares)), blockNumber, "0xd")

WithdrawLog(caller, receiver, owner, assets, shares, blockNumber) ==
    RawLog(<<TopicWithdraw, AddressTopic(caller), AddressTopic(receiver),
             AddressTopic(owner)>>,
           Str0x(WordDigits(assets) \o WordDigits(shares)), blockNumber, "0xw")

\* eventSignatures[event.topics[0]]: the event type, "" when there is none
EventTypeOf(topics) ==
    IF Len(topics) = 0 THEN ""
    ELSE IF topics[1] = TopicTransfer THEN "Transfer"
    ELSE IF topics[1] = TopicDeposit THEN "Deposit"
    ELSE IF topics[1] = TopicWithdraw THEN "Withdraw"
    ELSE ""

\* topics[k] (k counted from 0) sliced to its address digits and checksummed;
\* a missing topic throws a TypeError
TopicAddress(topics, k) ==
    IF Len(topics) < k + 1 THEN NoAddress
    ELSE GetAddress(Str0x(SliceLast(topics[k + 1], AddrLen)))

FormattedEvent(event, eventType, caller, owner, receiver, assets, shares, balanceChange) ==
    [blockNumber |-> event.blockNumber,
     transactionHash |-> event.transactionHash,
     eventType |-> eventType,
     caller |-> caller, owner |-> owner, receiver |-> receiver,
     assets |-> assets, shares |-> shares, balanceChange |-> balanceChange]

\* a Transfer decoded as if its value moved assets
FormatTransferMovesBalance(event) ==
    LET from == TopicAddress(event.topics, 1)
        to == TopicAddress(event.topics, 2)
        shares == BigIntOfString(event.data)
    IN  IF ~from.ok \/ ~to.ok \/ ~shares.ok THEN Skipped("caught")
        ELSE Pushed(FormattedEvent(event, "ShareTransfer", from.val, <<>>,
                                   to.val, <<"0">>,
                                   BigIntToString(shares.val),
                                   BigIntToString(shares.val)))

FormatTransfer(event) ==
    LET from == TopicAddress(event.topics, 1)
        to == TopicAddress(event.topics, 2)
        shares == BigIntOfString(event.data)
    IN  IF ~from.ok \/ ~to.ok \/ ~shares.ok THEN Skipped("caught")
        ELSE Pushed(FormattedEvent(event, "ShareTransfer", from.val, <<>>,
                                   to.val, <<"0">>,
                                   BigIntToString(shares.val), <<"0">>))

FormatDeposit(event) ==
    LET caller == TopicAddress(event.topics, 1)
        owner == TopicAddress(event.topics, 2)
        dataHex == SliceFrom(event.data, 2)
        assets == BigIntOfString(Str0x(Slice(dataHex, 0, WordLen)))
        shares == BigIntOfString(Str0x(Slice(dataHex, WordLen, 2 * WordLen)))
    IN  IF ~caller.ok \/ ~owner.ok \/ ~assets.ok \/ ~shares.ok
        THEN Skipped("caught")
        ELSE Pushed(FormattedEvent(event, "Deposit", caller.val, owner.val,
                                   owner.val, BigIntToString(assets.val),
                                   BigIntToString(shares.val),
                                   BigIntToString(assets.val)))

FormatWithdraw(event) ==
    LET caller == TopicAddress(event.topics, 1)
        receiver == TopicAddress(event.topics, 2)
        owner == TopicAddress(event.topics, 3)
        dataHex == SliceFrom(event.data, 2)
        assets == BigIntOfString(Str0x(Slice(dataHex, 0, WordLen)))
        shares == BigIntOfString(Str0x(Slice(dataHex, WordLen, 2 * WordLen)))
    IN  IF ~caller.ok \/ ~receiver.ok \/ ~owner.ok \/ ~assets.ok \/ ~shares.ok
        THEN Skipped("caught")
        ELSE Pushed(FormattedEvent(event, "Withdraw", caller.val, owner.val,
                                   receiver.val, BigIntToString(assets.val),
                                   BigIntToString(shares.val),
                                   BigIntToString(-assets.val)))

\* one pass of the loop body; the record is pushed when one of caller, owner
\* and receiver is not empty
FormatVaultEvent(event) ==
    LET eventType == EventTypeOf(event.topics)
        r == CASE eventType = "Transfer" -> FormatTransfer(event)
               [] eventType = "Deposit" -> FormatDeposit(event)
               [] eventType = "Withdraw" -> FormatWithdraw(event)
               [] OTHER -> Skipped("no event type")
    IN  IF r.outcome = "push"
           /\ r.out[1].caller = <<>> /\ r.out[1].owner = <<>>
           /\ r.out[1].receiver = <<>>
        THEN Skipped("no address")
        ELSE r

\* x placed behind the elements that are not in a later block
InsertByBlock(sorted, x) ==
    LET after == {k \in 1..Len(sorted) :
                     sorted[k].blockNumber - x.blockNumber > 0}
        at == IF after = {} THEN Len(sorted) + 1
              ELSE CHOOSE k \in after : \A j \in after : k <= j
    IN  SubSeq(sorted, 1, at - 1) \o <<x>> \o SubSeq(sorted, at, Len(sorted))

RECURSIVE SortByBlockFrom(_, _)
SortByBlockFrom(sorted, rest) ==
    IF rest = <<>> THEN sorted
    ELSE SortByBlockFrom(InsertByBlock(sorted, Head(rest)), Tail(rest))

\* formattedEvents.sort((a, b) => a.blockNumber - b.blockNumber), stable
SortByBlockNumber(evs) == SortByBlockFrom(<<>>, evs)

(***************************************************************************)
(* The raw logs the vault decoder is run on.                               *)
(***************************************************************************)
VaultSamples ==
    LET deposit == DepositLog(AddrA, AddrA, 100, 90, 5)
        withdraw == WithdrawLog(AddrA, AddrB, AddrA, 40, 36, 6)
        transfer == TransferLog(AddrA, AddrB, 10, 7)
    IN  { deposit, withdraw, transfer,
          DepositLog(AddrC, AddrB, 5, 5, 8),
          WithdrawLog(AddrB, AddrB, AddrB, MaxWord, 5, 3),
          \* a signature hash the decoder does not support
          [deposit EXCEPT !.topics[1] = UnknownTopic, !.blockNumber = 4],
          \* the owner topic is missing
          [withdraw EXCEPT !.topics = SubSeq(withdraw.topics, 1, 3)],
          \* data cut after the first word
          [deposit EXCEPT !.data = Str0x(WordDigits(100))],
          \* data that is no hexadecimal number
          [transfer EXCEPT !.data = <<"0", "x">>, !.blockNumber = 2] }

\* deposits and withdrawals with balanceChange +100, -40, 0, +5
DocumentedExample ==
    << DepositLog(AddrA, AddrA, 100, 90, 5),
       WithdrawLog(AddrA, AddrB, AddrA, 40, 36, 6),
       TransferLog(AddrA, AddrB, 10, 7),
       DepositLog(AddrC, AddrB, 5, 5, 8) >>

InitVault ==
    /\ FetchIdle("vault")
    /\ collation = "icu"
    /\ \/ events \in SeqsUpTo(VaultSamples, MaxBatch)
       \/ events = DocumentedExample
    /\ ppc = "main"
    /\ pos = 0
    /\ formattedEvents = <<>>
    /\ grouped = <<>>
    /\ groupedEvents = <<>>
    /\ runningBalance = 0
    /\ balanceHistory = <<>>
    /\ SaveIdle
    /\ RunIdle

\* formatEvents: one pass of for (const event of events)
FormatVaultStep ==
    /\ ppc = "format"
    /\ script = "vault"
    /\ pos < Len(events)
    /\ LET r == FormatVaultEvent(events[pos + 1])
       IN  IF r.outcome = "abort"
           THEN /\ ppc' = "thrown"
                /\ UNCHANGED <<pos, formattedEvents>>
           ELSE /\ formattedEvents' = formattedEvents \o r.out
                /\ pos' = pos + 1
                /\ ppc' = ppc
    /\ UNCHANGED <<collation, events, grouped, groupedEvents, runningBalance,
                   balanceHistory>>
    /\ UNCHANGED <<fetchVars, saveVars, runVars>>

\* formatEvents: return formattedEvents.sort(...)
FormatVaultReturn ==
    /\ ppc = "format"
    /\ script = "vault"
    /\ pos = Len(events)
    /\ formattedEvents' = SortByBlockNumber(formattedEvents)
    /\ ppc' = "formatted"
    /\ UNCHANGED <<collation, events, pos, grouped, groupedEvents,
                   runningBalance, balanceHistory>>
    /\ UNCHANGED <<fetchVars, saveVars, runVars>>

(***************************************************************************)
(* calculateRunningBalance.                                                *)
(***************************************************************************)
\* { ...event, runningBalance: runningBalance.toString() }
WithRunningBalance(event, balance) ==
    [blockNumber |-> event.blockNumber,
     transactionHash |-> event.transactionHash,
     eventType |-> event.eventType,
     caller |-> event.caller, owner |-> event.owner,
     receiver |-> event.receiver,
     assets |-> event.assets, shares |-> event.shares,
     balanceChange |-> event.balanceChange,
     runningBalance |-> BigIntToString(balance)]

\* runningBalance += BigInt(event.balanceChange)
AddBalanceChangeAbsolute(balance, event) ==
    balance + BigIntOfString(event.assets).val

AddBalanceChange(balance, event) ==
    balance + BigIntOfString(event.balanceChange).val

\* main: calculateRunningBalance(formattedEvents) is entered
RunningBalanceEnter ==
    /\ ppc = "formatted"
    /\ script = "vault"
    /\ runningBalance' = 0
    /\ balanceHistory' = <<>>
    /\ pos' = 0
    /\ ppc' = "running"
    /\ UNCHANGED <<collation, events, formattedEvents, grouped, groupedEvents>>
    /\ UNCHANGED <<fetchVars, saveVars, runVars>>

\* one pass of for (const event of events)
RunningBalanceStep ==
    /\ ppc = "running"
    /\ pos < Len(formattedEvents)
    /\ LET event == formattedEvents[pos + 1]
           balance == AddBalanceChange(runningBalance, event)
       IN  /\ runningBalance' = balance
           /\ balanceHistory' =
                 Append(balanceHistory, WithRunningBalance(event, balance))
    /\ pos' = pos + 1
    /\ UNCHANGED <<collation, events, ppc, formattedEvents, grouped,
                   groupedEvents>>
    /\ UNCHANGED <<fetchVars, saveVars, runVars>>

\* return balanceHistory
RunningBalanceReturn ==
    /\ ppc = "running"
    /\ pos = Len(formattedEvents)
    /\ ppc' = "balanced"
    /\ UNCHANGED <<collation, events, pos, formattedEvents, grouped,
                   groupedEvents, runningBalance, balanceHistory>>
    /\ UNCHANGED <<fetchVars, saveVars, runVars>>

NextVault ==
    \/ MainChecksEvents
    \/ FormatVaultStep
    \/ FormatVaultReturn
    \/ RunningBalanceEnter
    \/ RunningBalanceStep
    \/ RunningBalanceReturn

SpecVault == InitVault /\ [][NextVault]_vars

\* both decoders
InitDecode == InitDeposit \/ InitVault

NextDecode ==
    \/ MainChecksEvents
    \/ FormatDepositStep
    \/ FormatDepositReturn
    \/ GroupEnter
    \/ GroupStep
    \/ GroupReturn
    \/ FormatVaultStep
    \/ FormatVaultReturn
    \/ RunningBalanceEnter
    \/ RunningBalanceStep
    \/ RunningBalanceReturn

SpecDecode == InitDecode /\ [][NextDecode]_vars

(***************************************************************************)
(* The decoders as functions of the whole batch.                           *)
(***************************************************************************)
RECURSIVE FormatDepositAll(_)
FormatDepositAll(evs) ==
    IF evs = <<>> THEN <<>>
    ELSE FormatDepositEvent(Head(evs)).out \o FormatDepositAll(Tail(evs))

RECURSIVE FormatVaultUnsorted(_)
FormatVaultUnsorted(evs) ==
    IF evs = <<>> THEN <<>>
    ELSE FormatVaultEvent(Head(evs)).out \o FormatVaultUnsorted(Tail(evs))

FormatVaultAll(evs) == SortByBlockNumber(FormatVaultUnsorted(evs))

FormatEventsOf(s, evs) ==
    IF s = "vault" THEN FormatVaultAll(evs) ELSE FormatDepositAll(evs)

(***************************************************************************)
(* Properties of the decoders.                                             *)
(***************************************************************************)
\* the signature hashes a script's decoder supports
SupportedHashes(s) == FilterTopics(s)[1]

HasSupportedSignature(s, log) ==
    Len(log.topics) >= 1 /\ log.topics[1] \in SupportedHashes(s)

SelectSupported(s, evs) ==
    SelectSeq(evs, LAMBDA log : HasSupportedSignature(s, log))

\* C4: in both decoders a raw log whose topics[0] is none of the supported
\* signature hashes yields no decoded event and no error: what has been
\* decoded so far is what the logs with a supported hash alone give.
C4_UnknownSignatureSkipped ==
    /\ ppc # "thrown"
    /\ ppc = "format" =>
          Len(formattedEvents) =
             Len(FormatEventsOf(script,
                                SelectSupported(script, SubSeq(events, 1, pos))))

\* the text of an address topic parses: ethers.getAddress accepts its last
\* AddrLen characters
AddressTopicParses(topics, k) ==
    Len(topics) >= k + 1
    /\ GetAddress(Str0x(SliceLast(topics[k + 1], AddrLen))).ok

\* "0x" followed by hex digits, at least one
IsHexNumber(text) ==
    Len(text) > 2 /\ text[1] = "0" /\ text[2] = "x"
    /\ IsHexString(SliceFrom(text, 2))

\* the words of data the vault decoder reads are hex numbers
DataWordsParse(data) ==
    /\ Len(data) > 2 + WordLen
    /\ IsHexString(SubSeq(data, 3, Min(Len(data), 2 + 2 * WordLen)))

\* decoding the log fails: a field the decoder reads is missing or does not
\* parse
DecodingFails(s, log) ==
    IF s = "deposit"
    THEN Len(log.topics) >= 4
         /\ ~(/\ AddressTopicParses(log.topics, 1)
              /\ AddressTopicParses(log.topics, 2)
              /\ IsHexNumber(<<"0", "x">> \o SliceFrom(log.topics[4], 2)))
    ELSE CASE Len(log.topics) = 0 -> FALSE
           [] log.topics[1] = TopicTransfer ->
                 ~(/\ AddressTopicParses(log.topics, 1)
                   /\ AddressTopicParses(log.topics, 2)
                   /\ IsHexNumber(log.data))
           [] log.topics[1] = TopicDeposit ->
                 ~(/\ AddressTopicParses(log.topics, 1)
                   /\ AddressTopicParses(log.topics, 2)
                   /\ DataWordsParse(log.data))
           [] log.topics[1] = TopicWithdraw ->
                 ~(/\ AddressTopicParses(log.topics, 1)
                   /\ AddressTopicParses(log.topics, 2)
                   /\ AddressTopicParses(log.topics, 3)
                   /\ DataWordsParse(log.data))
           [] OTHER -> FALSE

WithoutFailing(s, evs) ==
    SelectSeq(evs, LAMBDA log : ~DecodingFails(s, log))

CountFailing(s, evs) ==
    Cardinality({k \in 1..Len(evs) : DecodingFails(s, evs[k])})

\* C5: decoding a batch never aborts; a log whose decoding fails is left out
\* and the result is what the batch without the failing logs gives, in both
\* formatEvents functions.
C5_FailingLogOmitted ==
    /\ ppc # "thrown"
    /\ ppc = "format" =>
          /\ formattedEvents =
                (IF script = "vault"
                 THEN FormatVaultUnsorted(
                         WithoutFailing(script, SubSeq(events, 1, pos)))
                 ELSE FormatDepositAll(
                         WithoutFailing(script, SubSeq(events, 1, pos))))
          /\ Len(formattedEvents) + CountFailing(script, SubSeq(events, 1, pos))
                <= pos
    /\ ppc = "formatted" =>
          formattedEvents = FormatEventsOf(script, WithoutFailing(script, events))

C5_Witness ==
    /\ ppc = "formatted"
    /\ script = "vault"
    /\ Len(events) = 3
    /\ ~DecodingFails(script, events[1])
    /\ DecodingFails(script, events[2])
    /\ ~DecodingFails(script, events[3])
    /\ Len(formattedEvents) = 2

\* a decimal literal as toString writes it: digits, no leading zero
IsCanonicalDecimal(text) ==
    /\ IsDecimalString(text)
    /\ Len(text) > 1 => text[1] # "0"

\* C6: a DepositProcessed log built from (asset, user, amount), whatever its
\* data, decodes to exactly one record with the two addresses in checksum
\* form and the amount as the decimal string of the integer.
C6_DepositRoundTrip ==
    \A asset \in Addresses, user \in Addresses, amount \in AmountSamples,
       data \in DataSamples :
        (/\ script = "deposit"
         /\ ppc = "formatted"
         /\ events = <<DepositProcessedLog(asset, user, amount, data)>>) =>
            /\ Len(formattedEvents) = 1
            /\ formattedEvents[1].asset = Str0x(ChecksumDigits(asset))
            /\ ToLowerCase(formattedEvents[1].asset) = Str0x(asset)
            /\ formattedEvents[1].user = Str0x(ChecksumDigits(user))
            /\ ToLowerCase(formattedEvents[1].user) = Str0x(user)
            /\ IsCanonicalDecimal(formattedEvents[1].amount)
            /\ ParseDecimalDigits(formattedEvents[1].amount, 0) = amount

C6_Witness ==
    /\ script = "deposit"
    /\ ppc = "formatted"
    /\ \E data \in DataSamples :
          /\ Len(data) > 2
          /\ events = <<DepositProcessedLog(AddrC, AddrA, MaxWord, data)>>
    /\ Len(formattedEvents) = 1
    /\ ParseDecimalDigits(formattedEvents[1].amount, 0) = MaxWord

\* the fields of a log with four topics parse
DepositFieldsParse(log) ==
    /\ AddressTopicParses(log.topics, 1)
    /\ AddressTopicParses(log.topics, 2)
    /\ IsHexNumber(<<"0", "x">> \o SliceFrom(log.topics[4], 2))

\* C7: the DepositProcessed decoder emits a record only for a log with at
\* least four topics; a log with fewer is skipped without error; the records
\* returned are as many as the logs with at least four topics whose fields
\* parse.
C7_FourTopicsNeeded ==
    script = "deposit" =>
        /\ ppc # "thrown"
        /\ ppc \in {"format", "formatted"} =>
              Len(formattedEvents) =
                 Cardinality({k \in 1..pos :
                                 /\ Len(events[k].topics) >= 4
                                 /\ DepositFieldsParse(events[k])})

C7_Witness ==
    /\ script = "deposit"
    /\ ppc = "formatted"
    /\ Len(events) = 3
    /\ Len(events[1].topics) = 3
    /\ Len(events[2].topics) = 4 /\ DepositFieldsParse(events[2])
    /\ Len(events[3].topics) = 4 /\ ~DepositFieldsParse(events[3])
    /\ Len(formattedEvents) = 1

(***************************************************************************)
(* Properties of groupEventsByUserAndAsset.                                *)
(***************************************************************************)
Orderings(n) ==
    {f \in [1..n -> 1..n] : \A a, b \in 1..n : f[a] = f[b] => a = b}

Permuted(seq, f) == [k \in 1..Len(seq) |-> seq[f[k]]]

PairsOf(seq) == {<<seq[k].user, seq[k].asset>> : k \in 1..Len(seq)}

RECURSIVE SumAmounts(_, _)
\* the sum of the amounts of the events of one (user, asset) pair
SumAmounts(seq, pair) ==
    IF seq = <<>> THEN 0
    ELSE (IF <<Head(seq).user, Head(seq).asset>> = pair
          THEN ParseDecimalDigits(Head(seq).amount, 0) ELSE 0)
         + SumAmounts(Tail(seq), pair)

\* C8: the grouping does not depend on the order of the events, has one
\* entry for each (user, asset) pair of the input, each with the exact sum
\* of the pair's amounts, and is empty for an empty input.
C8_GroupingExact ==
    (script = "deposit" /\ ppc = "grouped") =>
        /\ \A f \in Orderings(Len(formattedEvents)) :
              GroupEventsByUserAndAsset(Permuted(formattedEvents, f))
                 = groupedEvents
        /\ PairsOf(groupedEvents) = PairsOf(formattedEvents)
        /\ Len(groupedEvents) = Cardinality(PairsOf(formattedEvents))
        /\ \A k \in 1..Len(groupedEvents) :
              /\ IsCanonicalDecimal(groupedEvents[k].amount)
              /\ ParseDecimalDigits(groupedEvents[k].amount, 0) =
                    SumAmounts(formattedEvents,
                               <<groupedEvents[k].user, groupedEvents[k].asset>>)
        /\ formattedEvents = <<>> => groupedEvents = <<>>

C8_Witness ==
    /\ script = "deposit"
    /\ ppc = "grouped"
    /\ Len(formattedEvents) = 3
    /\ Len(groupedEvents) = 2
    /\ \E k \in 1..2 :
          ParseDecimalDigits(groupedEvents[k].amount, 0) = 2 * MaxWord

\* the order of the code units of two texts: TRUE when a is before b
ByteOrderLess(a, b) == CodeUnitCompare(a, b) < 0

\* the rows are strictly increasing by (user, asset) under Less
RowsIncreasing(rows, Less(_, _)) ==
    \A k \in 1..(Len(rows) - 1) :
        \/ Less(rows[k].user, rows[k + 1].user)
        \/ /\ rows[k].user = rows[k + 1].user
           /\ Less(rows[k].asset, rows[k + 1].asset)

\* C9 as stated: the rows are sorted by user, then asset, in case-sensitive
\* byte order.
C9_SortedInByteOrder ==
    (script = "deposit" /\ ppc = "grouped") =>
        RowsIncreasing(groupedEvents, ByteOrderLess)

LocaleLess(a, b) == LocaleCompare(a, b) < 0

\* C9 amended: the rows are sorted by user, then asset, in the order of
\* localeCompare, the collation order of the runtime.
C9_SortedInLocaleOrder ==
    (script = "deposit" /\ ppc = "grouped") =>
        RowsIncreasing(groupedEvents, LocaleLess)

C9_Witness ==
    /\ script = "deposit"
    /\ ppc = "grouped"
    /\ collation = "icu"
    /\ Len(groupedEvents) = 3
    /\ groupedEvents[1].user # groupedEvents[2].user
    /\ groupedEvents[2].user = groupedEvents[3].user
    /\ ~ByteOrderLess(groupedEvents[1].user, groupedEvents[2].user)

(***************************************************************************)
(* Properties of calculateRunningBalance.                                  *)
(***************************************************************************)
RECURSIVE SumBalanceChanges(_, _)
\* the signed sum of balanceChange over the first k events
SumBalanceChanges(evs, k) ==
    IF k = 0 THEN 0
    ELSE SumBalanceChanges(evs, k - 1) + BigIntOfString(evs[k].balanceChange).val

EventFields == {"blockNumber", "transactionHash", "eventType", "caller",
                "owner", "receiver", "assets", "shares", "balanceChange"}

\* C10: calculateRunningBalance returns, in order, each input event extended
\* with the signed sum of balanceChange up to it, starting from 0
\* (+100, -40, 0, +5 gives 100, 60, 60, 65); the input is not modified.
C10_RunningBalanceIsLeftFold ==
    (script = "vault" /\ ppc \in {"running", "balanced"}) =>
        /\ formattedEvents = FormatVaultAll(events)
        /\ Len(balanceHistory) = pos
        /\ ppc = "balanced" => Len(balanceHistory) = Len(formattedEvents)
        /\ \A k \in 1..Len(balanceHistory) :
              /\ \A f \in EventFields :
                    balanceHistory[k][f] = formattedEvents[k][f]
              /\ BigIntOfString(balanceHistory[k].runningBalance).ok
              /\ BigIntOfString(balanceHistory[k].runningBalance).val =
                    SumBalanceChanges(formattedEvents, k)
        /\ (ppc = "balanced" /\ events = DocumentedExample) =>
              [k \in 1..4 |-> balanceHistory[k].runningBalance] =
                 << <<"1", "0", "0">>, <<"6", "0">>, <<"6", "0">>, <<"6", "5">> >>

C10_Witness ==
    /\ script = "vault"
    /\ ppc = "balanced"
    /\ events = DocumentedExample
    /\ Len(balanceHistory) = 4
    /\ balanceHistory[2].runningBalance = <<"6", "0">>
    /\ balanceHistory[4].runningBalance = <<"6", "5">>

(***************************************************************************)
(* saveUserBalances of the vault script.                                   *)
(***************************************************************************)
\* const EXCLUDED_USER: an address in mixed-case checksum form
EXCLUDED_USER == GetAddress(Str0x(AddrA)).val

\* the length of vaultAddress.slice(0, 8)
ShortAddressLen == 8

\* the loop body continues without touching userBalances: a share transfer,
\* an empty owner, or the excluded user whatever the case of its letters
SkipsEventExcludedByText(event) ==
    \/ event.eventType = "ShareTransfer"
    \/ event.owner = <<>>
    \/ event.owner = EXCLUDED_USER

SkipsEvent(event) ==
    \/ event.eventType = "ShareTransfer"
    \/ event.owner = <<>>
    \/ ToLowerCase(event.owner) = ToLowerCase(EXCLUDED_USER)

\* userBalances[userAddress] is set
HasUser(balances, userAddress) ==
    \E k \in 1..Len(balances) : balances[k].user_address = userAddress

UserIndex(balances, userAddress) ==
    CHOOSE k \in 1..Len(balances) : balances[k].user_address = userAddress

NewUser(userAddress) ==
    [user_address |-> userAddress, total_deposited |-> 0, total_withdrawn |-> 0]

\* BigInt(event.assets || '0')
AssetsOf(event) ==
    BigIntOfString(IF event.assets = <<>> THEN <<"0">> ELSE event.assets)

\* one pass of for (const event of events), for an event whose assets parse
AddToUserWithdrawAsDeposit(balances, event) ==
    IF SkipsEvent(event) THEN balances
    ELSE LET entered == IF HasUser(balances, event.owner) THEN balances
                        ELSE Append(balances, NewUser(event.owner))
             k == UserIndex(entered, event.owner)
             assets == AssetsOf(event).val
         IN  IF event.eventType \in {"Deposit", "Withdraw"}
             THEN [entered EXCEPT ![k].total_deposited = @ + assets]
             ELSE entered

AddToUser(balances, event) ==
    IF SkipsEvent(event) THEN balances
    ELSE LET entered == IF HasUser(balances, event.owner) THEN balances
                        ELSE Append(balances, NewUser(event.owner))
             k == UserIndex(entered, event.owner)
             assets == AssetsOf(event).val
         IN  IF event.eventType = "Deposit"
             THEN [entered EXCEPT ![k].total_deposited = @ + assets]
             ELSE IF event.eventType = "Withdraw"
             THEN [entered EXCEPT ![k].total_withdrawn = @ + assets]
             ELSE entered

\* the pass throws: BigInt rejects the text of assets
AddToUserThrows(event) == ~SkipsEvent(event) /\ ~AssetsOf(event).ok

\* the withdrawals left out of the net balance
NetBalanceDepositsOnly(user) == user.total_deposited

\* const netBalance = user.total_deposited - user.total_withdrawn
NetBalance(user) == user.total_deposited - user.total_withdrawn

\* .filter(user => user.netBalance !== BigInt(0))
UsersWithBalance(balances) ==
    SelectSeq(balances, LAMBDA user : NetBalance(user) # 0)

RECURSIVE SumDeposited(_)
SumDeposited(balances) ==
    IF balances = <<>> THEN 0
    ELSE Head(balances).total_deposited + SumDeposited(Tail(balances))

RECURSIVE SumWithdrawn(_)
SumWithdrawn(balances) ==
    IF balances = <<>> THEN 0
    ELSE Head(balances).total_withdrawn + SumWithdrawn(Tail(balances))

\* the totals of the summary: forEach over Object.values(userBalances)
TotalsOfReported(balances) ==
    [deposits |-> SumDeposited(UsersWithBalance(balances)),
     withdrawals |-> SumWithdrawn(UsersWithBalance(balances))]

TotalsOf(balances) ==
    [deposits |-> SumDeposited(balances),
     withdrawals |-> SumWithdrawn(balances)]

\* return null
NullSummary == [null |-> TRUE]

\* the object saveUserBalances returns
SummaryOf(balances) ==
    LET totals == TotalsOf(balances)
    IN  [userCount |-> Len(UsersWithBalance(balances)),
         totalDeposits |-> BigIntToString(totals.deposits),
         totalWithdrawals |-> BigIntToString(totals.withdrawals),
         netBalance |-> BigIntToString(totals.deposits - totals.withdrawals)]

(***************************************************************************)
(* The CSV files.  A file content is a text: a sequence of characters,     *)
(* "\n" being the line feed.                                               *)
(***************************************************************************)
LF == "\n"

\* 'vault,user,amount\n'
VaultCsvHeader ==
    <<"v", "a", "u", "l", "t", ",", "u", "s", "e", "r", ",", "a", "m", "o",
      "u", "n", "t", "\n">>

\* 'asset,address,amount\n'
EventsCsvHeader ==
    <<"a", "s", "s", "e", "t", ",", "a", "d", "d", "r", "e", "s", "s", ",",
      "a", "m", "o", "u", "n", "t", "\n">>

\* 'user,asset,total_amount\n'
GroupedCsvHeader ==
    <<"u", "s", "e", "r", ",", "a", "s", "s", "e", "t", ",", "t", "o", "t",
      "a", "l", "_", "a", "m", "o", "u", "n", "t", "\n">>

\* array.join('\n')
RECURSIVE JoinLines(_)
JoinLines(rows) ==
    IF rows = <<>> THEN <<>>
    ELSE IF Len(rows) = 1 THEN rows[1]
    ELSE Head(rows) \o <<LF>> \o JoinLines(Tail(rows))

\* `${vaultAddress},${user.user_address},${user.netBalance.toString()}`
VaultCsvRow(address, user) ==
    address \o <<",">> \o user.user_address \o <<",">>
        \o BigIntToString(NetBalance(user))

\* `${event.asset},${event.user},${event.amount}`
EventCsvRow(event) ==
    event.asset \o <<",">> \o event.user \o <<",">> \o event.amount

\* `${event.user},${event.asset},${event.amount}`
GroupedCsvRow(event) ==
    event.user \o <<",">> \o event.asset \o <<",">> \o event.amount

\* the csvRows of saveUserBalances before they are joined
VaultCsvRows(address, balances) ==
    LET kept == UsersWithBalance(balances)
    IN  [k \in 1..Len(kept) |-> VaultCsvRow(address, kept[k])]

EventCsvRows(evs) == [k \in 1..Len(evs) |-> EventCsvRow(evs[k])]

GroupedCsvRows(evs) == [k \in 1..Len(evs) |-> GroupedCsvRow(evs[k])]

\* `vault_user_balances_${vaultAddress.slice(0, 8)}.csv`
VaultFilename(address) ==
    <<"vault_user_balances_">> \o Slice(address, 0, ShortAddressLen)
        \o <<".csv">>

\* fs.writeFileSync(filename, csvHeader + csvRows): the file as written, with
\* the rows it was made of
WrittenFile(filename, csvHeader, rows) ==
    [filename |-> filename,
     content |-> csvHeader \o JoinLines(rows),
     header |-> csvHeader,
     rows |-> rows]

(***************************************************************************)
(* main of the vault script from the fetched events to the report of one   *)
(* vault: formatEvents, calculateRunningBalance, saveUserBalances.         *)
(***************************************************************************)
NumVaults == 2

\* const VAULTS: checksummed addresses
VAULTS ==
    [k \in 1..NumVaults |->
        Str0x(ChecksumDigits(PadLeft(<<HexDigits[k + 1], "c">>, AddrLen)))]

\* raw logs of two users and of the excluded user
ReportSamples ==
    { DepositLog(AddrC, AddrB, 100, 90, 5),
      WithdrawLog(AddrB, AddrC, AddrB, 30, 27, 6),
      WithdrawLog(AddrB, AddrB, AddrB, 100, 90, 7),
      TransferLog(AddrC, AddrB, 10, 8),
      DepositLog(AddrB, AddrA, 7, 7, 9),
      WithdrawLog(AddrC, AddrC, AddrC, 5, 5, 4),
      \* the owner topic of the excluded user in upper-case digits
      [WithdrawLog(AddrA, AddrB, AddrA, 3, 3, 10) EXCEPT
          !.topics[4] = Str0x(ToUpperCase(PadLeft(AddrA, WordLen)))] }

\* decoded events handed to saveUserBalances with an owner text that is not
\* in checksum form
RecasedSamples ==
    LET raw == [blockNumber |-> 1, transactionHash |-> "0xr"]
        userB == GetAddress(Str0x(AddrB)).val
    IN  { FormattedEvent(raw, "Deposit", userB, ToLowerCase(EXCLUDED_USER),
                         ToLowerCase(EXCLUDED_USER), <<"7">>, <<"7">>, <<"7">>),
          FormattedEvent(raw, "Withdraw", userB, Str0x(ToUpperCase(AddrA)),
                         userB, <<"3">>, <<"3">>, <<"-", "3">>),
          FormattedEvent(raw, "Deposit", userB, userB, userB,
                         <<"1", "0", "0">>, <<"9">>, <<"1", "0", "0">>),
          FormattedEvent(raw, "ShareTransfer", EXCLUDED_USER, <<>>, userB,
                         <<"0">>, <<"4">>, <<"0">>) }

InitReport ==
    /\ FetchIdle("vault")
    /\ RunIdle
    /\ collation = "icu"
    /\ vaultAddress = VAULTS[1]
    /\ userBalances = <<>>
    /\ files = <<>>
    /\ summary = <<>>
    /\ \/ /\ events \in SeqsUpTo(ReportSamples, MaxBatch)
          /\ ppc = "main"
          /\ formattedEvents = <<>>
       \/ /\ events = <<>>
          /\ ppc = "call"
          /\ formattedEvents \in SeqsUpTo(RecasedSamples, MaxBatch)
    /\ pos = 0
    /\ grouped = <<>>
    /\ groupedEvents = <<>>
    /\ runningBalance = 0
    /\ balanceHistory = <<>>

\* saveUserBalances(formattedEvents, VAULT_ADDRESS) is entered
SaveEnter ==
    /\ ppc \in {"balanced", "call"}
    /\ script = "vault"
    /\ vaultAddress # <<>>
    /\ userBalances' = <<>>
    /\ pos' = 0
    /\ ppc' = "save"
    /\ UNCHANGED <<collation, events, formattedEvents, grouped, groupedEvents,
                   runningBalance, balanceHistory>>
    /\ UNCHANGED <<vaultAddress, files, summary>>
    /\ UNCHANGED <<fetchVars, runVars>>

\* one pass of for (const event of events); a throw is caught at the end of
\* the function, which returns null
SaveStep ==
    /\ ppc = "save"
    /\ pos < Len(formattedEvents)
    /\ LET event == formattedEvents[pos + 1]
       IN  IF AddToUserThrows(event)
           THEN /\ summary' = <<NullSummary>>
                /\ ppc' = "saved"
                /\ UNCHANGED <<userBalances, pos>>
           ELSE /\ userBalances' = AddToUser(userBalances, event)
                /\ pos' = pos + 1
                /\ UNCHANGED <<summary, ppc>>
    /\ UNCHANGED <<collation, events, formattedEvents, grouped, groupedEvents,
                   runningBalance, balanceHistory>>
    /\ UNCHANGED <<vaultAddress, files>>
    /\ UNCHANGED <<fetchVars, runVars>>

\* the rows are built and joined, the file is written, the users and the
\* totals are counted and the summary is returned
SaveWrite ==
    /\ ppc = "save"
    /\ pos = Len(formattedEvents)
    /\ files' = Append(files,
                       WrittenFile(VaultFilename(vaultAddress), VaultCsvHeader,
                                   VaultCsvRows(vaultAddress, userBalances)))
    /\ summary' = <<SummaryOf(userBalances)>>
    /\ ppc' = "saved"
    /\ UNCHANGED <<collation, events, pos, formattedEvents, grouped,
                   groupedEvents, runningBalance, balanceHistory>>
    /\ UNCHANGED <<vaultAddress, userBalances>>
    /\ UNCHANGED <<fetchVars, runVars>>

\* fs.writeFileSync throws: caught, null is returned
SaveWriteThrows ==
    /\ ppc = "save"
    /\ pos = Len(formattedEvents)
    /\ summary' = <<NullSummary>>
    /\ ppc' = "saved"
    /\ UNCHANGED <<collation, events, pos, formattedEvents, grouped,
                   groupedEvents, runningBalance, balanceHistory>>
    /\ UNCHANGED <<vaultAddress, userBalances, files>>
    /\ UNCHANGED <<fetchVars, runVars>>

NextReport ==
    \/ MainChecksEvents
    \/ FormatVaultStep
    \/ FormatVaultReturn
    \/ RunningBalanceEnter
    \/ RunningBalanceStep
    \/ RunningBalanceReturn
    \/ SaveEnter
    \/ SaveStep
    \/ SaveWrite
    \/ SaveWriteThrows

SpecReport == InitReport /\ [][NextReport]_vars

(***************************************************************************)
(* Properties of the per-user report.                                      *)
(***************************************************************************)
\* text.split(sep): the fields between the separators, in order
SplitText(text, sep) ==
    LET seps == {k \in 1..Len(text) : text[k] = sep}
        n == Cardinality(seps)
        at(j) == IF j = 0 THEN 0
                 ELSE IF j = n + 1 THEN Len(text) + 1
                 ELSE CHOOSE k \in seps :
                         Cardinality({m \in seps : m < k}) = j - 1
    IN  [j \in 1..(n + 1) |-> SubSeq(text, at(j - 1) + 1, at(j) - 1)]

\* the columns of a row of the per-user report
RowUser(row) == SplitText(row, ",")[2]

RowAmount(row) == BigIntOfString(SplitText(row, ",")[3]).val

\* saveUserBalances has returned its summary object
SummaryReturned ==
    ppc = "saved" /\ summary # <<>> /\ summary # <<NullSummary>>

\* the file saveUserBalances wrote
Report == files[Len(files)]

IsExcluded(address) == ToLowerCase(address) = ToLowerCase(EXCLUDED_USER)

\* the sum of assets over the events of one kind and one owner
RECURSIVE SumAssets(_, _, _)
SumAssets(evs, kind, owner) ==
    IF evs = <<>> THEN 0
    ELSE (IF Head(evs).eventType = kind /\ Head(evs).owner = owner
          THEN BigIntOfString(Head(evs).assets).val ELSE 0)
         + SumAssets(Tail(evs), kind, owner)

NetOf(evs, owner) ==
    SumAssets(evs, "Deposit", owner) - SumAssets(evs, "Withdraw", owner)

\* the owners of the deposits and withdrawals, the excluded user left out
OwnersOf(evs) ==
    {evs[k].owner : k \in {j \in 1..Len(evs) :
        /\ evs[j].eventType \in {"Deposit", "Withdraw"}
        /\ evs[j].owner # <<>>
        /\ ~IsExcluded(evs[j].owner)}}

AppearsIn(address, event) ==
    address # <<>> /\ address \in {event.caller, event.owner, event.receiver}

AddressesIn(evs) ==
    UNION {{evs[k].caller, evs[k].owner, evs[k].receiver} : k \in 1..Len(evs)}
        \ {<<>>}

OnlyInShareTransfers(address, evs) ==
    \A k \in 1..Len(evs) :
        AppearsIn(address, evs[k]) => evs[k].eventType = "ShareTransfer"

\* the decoded event comes from a raw Transfer log
FromTransferLog(event) ==
    \E k \in 1..Len(events) :
        /\ Len(events[k].topics) >= 1
        /\ events[k].topics[1] = TopicTransfer
        /\ events[k].transactionHash = event.transactionHash
        /\ events[k].blockNumber = event.blockNumber

\* C11: share transfers never move asset balances.  Every event decoded from a
\* raw Transfer log is a ShareTransfer with balanceChange zero; it leaves the
\* running balance as it was; it adds to no user's total_deposited or
\* total_withdrawn; a user who appears only in ShareTransfer events has no row
\* in the per-user report and is not counted in userCount.
C11_ShareTransfersMoveNothing ==
    /\ \A k \in 1..Len(formattedEvents) :
          LET e == formattedEvents[k]
          IN  /\ e.eventType # "Transfer"
              /\ FromTransferLog(e) \/ e.eventType = "ShareTransfer" =>
                    e.eventType = "ShareTransfer" /\ e.balanceChange = <<"0">>
    /\ \A k \in 1..Len(balanceHistory) :
          balanceHistory[k].eventType = "ShareTransfer" =>
             balanceHistory[k].runningBalance =
                IF k = 1 THEN <<"0">> ELSE balanceHistory[k - 1].runningBalance
    /\ SummaryReturned =>
          /\ \A k \in 1..Len(userBalances) :
                LET user == userBalances[k]
                IN  /\ user.total_deposited =
                          SumAssets(formattedEvents, "Deposit", user.user_address)
                    /\ user.total_withdrawn =
                          SumAssets(formattedEvents, "Withdraw", user.user_address)
          /\ \A address \in AddressesIn(formattedEvents) :
                OnlyInShareTransfers(address, formattedEvents) =>
                   /\ ~HasUser(userBalances, address)
                   /\ \A r \in 1..Len(Report.rows) :
                         RowUser(Report.rows[r]) # address
          /\ summary[1].userCount =
                Cardinality({owner \in OwnersOf(formattedEvents) :
                                NetOf(formattedEvents, owner) # 0})

\* a share transfer follows a withdrawal: the running balance stays negative,
\* the sender of the transfer appears in no other event, the report has a row
C11_Witness ==
    /\ SummaryReturned
    /\ Len(Report.rows) >= 1
    /\ \E k \in 2..Len(balanceHistory) :
          /\ balanceHistory[k].eventType = "ShareTransfer"
          /\ FromTransferLog(balanceHistory[k])
          /\ balanceHistory[k].runningBalance # <<"0">>
          /\ OnlyInShareTransfers(balanceHistory[k].caller, formattedEvents)

\* the rows of the report whose user column is the owner
RowsOfOwner(owner) ==
    {r \in 1..Len(Report.rows) : RowUser(Report.rows[r]) = owner}

\* C12: per-user net balance.  For every owner that is not the excluded user,
\* the report has a row for the owner exactly when the sum of assets over the
\* owner's Deposit events minus the sum over its Withdraw events is not zero;
\* there is at most one row per owner, the amount of the row is exactly that
\* difference (negative when the withdrawals are larger), and every row
\* belongs to such an owner.
C12_NetBalancePerOwner ==
    SummaryReturned =>
       /\ \A owner \in OwnersOf(formattedEvents) :
             LET net == NetOf(formattedEvents, owner)
                 rows == RowsOfOwner(owner)
             IN  /\ (rows # {}) <=> (net # 0)
                 /\ Cardinality(rows) <= 1
                 /\ \A r \in rows :
                       SplitText(Report.rows[r], ",")[3] = BigIntToString(net)
       /\ \A r \in 1..Len(Report.rows) :
             RowUser(Report.rows[r]) \in OwnersOf(formattedEvents)

\* deposits of 100 and withdrawals of 30 are reported as 70, next to an owner
\* reported with a negative amount
C12_Witness ==
    /\ SummaryReturned
    /\ \E owner \in OwnersOf(formattedEvents) :
          /\ SumAssets(formattedEvents, "Deposit", owner) = 100
          /\ SumAssets(formattedEvents, "Withdraw", owner) = 30
          /\ \E r \in RowsOfOwner(owner) : RowAmount(Report.rows[r]) = 70
    /\ \E r \in 1..Len(Report.rows) : RowAmount(Report.rows[r]) < 0

\* C13: the excluded address is never reported.  Events whose owner is the
\* excluded address, in whatever letter case and with whatever amounts, give
\* no entry and no row, and are not counted: userCount is the number of rows
\* written, none of which is a row of the excluded address.
C13_ExcludedNeverReported ==
    /\ \A k \in 1..Len(userBalances) :
          ~IsExcluded(userBalances[k].user_address)
    /\ SummaryReturned =>
          /\ \A r \in 1..Len(Report.rows) :
                ~IsExcluded(RowUser(Report.rows[r]))
          /\ summary[1].userCount = Len(Report.rows)
          /\ summary[1].userCount =
                Cardinality({owner \in OwnersOf(formattedEvents) :
                                ~IsExcluded(owner)
                                /\ NetOf(formattedEvents, owner) # 0})

\* the excluded address owns events under a text that is not its checksum
\* form, with a net amount that is not zero, next to a reported user
C13_Witness ==
    /\ SummaryReturned
    /\ Len(Report.rows) >= 1
    /\ \E k \in 1..Len(formattedEvents) :
          LET owner == formattedEvents[k].owner
          IN  /\ formattedEvents[k].eventType \in {"Deposit", "Withdraw"}
              /\ IsExcluded(owner)
              /\ owner # EXCLUDED_USER
              /\ NetOf(formattedEvents, owner) # 0

\* the sum of assets over the events of one kind whose owner is aggregated
RECURSIVE SumKind(_, _)
SumKind(evs, kind) ==
    IF evs = <<>> THEN 0
    ELSE (IF /\ Head(evs).eventType = kind
             /\ Head(evs).owner # <<>>
             /\ ~IsExcluded(Head(evs).owner)
          THEN BigIntOfString(Head(evs).assets).val ELSE 0)
         + SumKind(Tail(evs), kind)

\* C14: the run-wide summary sums over all aggregated users, those dropped
\* from the rows for a zero net balance included: totalDeposits is the sum
\* of total_deposited over all of them, totalWithdrawals the sum of
\* total_withdrawn, and netBalance is totalDeposits minus totalWithdrawals.
C14_SummaryOverAllUsers ==
    SummaryReturned =>
       /\ summary[1].totalDeposits =
             BigIntToString(SumKind(formattedEvents, "Deposit"))
       /\ summary[1].totalWithdrawals =
             BigIntToString(SumKind(formattedEvents, "Withdraw"))
       /\ summary[1].totalDeposits =
             BigIntToString(SumDeposited(userBalances))
       /\ summary[1].totalWithdrawals =
             BigIntToString(SumWithdrawn(userBalances))
       /\ BigIntOfString(summary[1].netBalance).val =
             BigIntOfString(summary[1].totalDeposits).val
                - BigIntOfString(summary[1].totalWithdrawals).val

\* a user with deposits and a zero net balance has no row and is in the totals,
\* next to a user that has a row
C14_Witness ==
    /\ SummaryReturned
    /\ Len(Report.rows) >= 1
    /\ \E k \in 1..Len(userBalances) :
          /\ userBalances[k].total_deposited > 0
          /\ NetBalance(userBalances[k]) = 0
          /\ RowsOfOwner(userBalances[k].user_address) = {}
    /\ BigIntOfString(summary[1].totalDeposits).val > 0

RECURSIVE SumRowAmounts(_)
SumRowAmounts(rows) ==
    IF rows = <<>> THEN 0
    ELSE RowAmount(Head(rows)) + SumRowAmounts(Tail(rows))

\* C18: report and summary agree.  The sum of the amount column over the rows
\* written to the per-vault report equals the netBalance of the summary that
\* saveUserBalances returns: neither the users dropped for a zero net balance
\* nor the excluded address make the rows differ from the run-wide totals.
C18_RowsSumToSummary ==
    SummaryReturned =>
       SumRowAmounts(SubSeq(SplitText(Report.content, LF), 2,
                            Len(Report.rows) + 1))
          = BigIntOfString(summary[1].netBalance).val

\* the excluded address owns events with a net amount that is not zero, and
\* the report has rows that sum to a net balance that is not zero
C18_Witness ==
    /\ SummaryReturned
    /\ Len(Report.rows) >= 1
    /\ BigIntOfString(summary[1].netBalance).val # 0
    /\ \E k \in 1..Len(formattedEvents) :
          /\ formattedEvents[k].eventType \in {"Deposit", "Withdraw"}
          /\ IsExcluded(formattedEvents[k].owner)
          /\ NetOf(formattedEvents, formattedEvents[k].owner) # 0

(***************************************************************************)
(* The functions of the run as functions of their whole input.             *)
(***************************************************************************)
RECURSIVE RunningBalanceFrom(_, _)
RunningBalanceFrom(balance, evs) ==
    IF evs = <<>> THEN <<>>
    ELSE LET next == AddBalanceChange(balance, Head(evs))
         IN  <<WithRunningBalance(Head(evs), next)>>
                \o RunningBalanceFrom(next, Tail(evs))

CalculateRunningBalance(evs) == RunningBalanceFrom(0, evs)

RECURSIVE AddAllToUsers(_, _)
AddAllToUsers(balances, evs) ==
    IF evs = <<>> THEN balances
    ELSE AddAllToUsers(AddToUser(balances, Head(evs)), Tail(evs))

\* saveUserBalances(events, vaultAddress): the entries, the file it writes (none
\* when it throws) and what it returns
SaveUserBalances(evs, address) ==
    IF \E k \in 1..Len(evs) : AddToUserThrows(evs[k])
    THEN [balances |-> <<>>, written |-> <<>>, returned |-> NullSummary]
    ELSE LET balances == AddAllToUsers(<<>>, evs)
         IN  [balances |-> balances,
              written |-> <<WrittenFile(VaultFilename(address), VaultCsvHeader,
                                        VaultCsvRows(address, balances))>>,
              returned |-> SummaryOf(balances)]

\* saveEventsToFile(formattedEvents)
SaveEventsToFile(evs) ==
    WrittenFile(<<"krates_events.csv">>, EventsCsvHeader, EventCsvRows(evs))

\* saveGroupedEventsToFile(groupedEvents)
SaveGroupedEventsToFile(evs) ==
    WrittenFile(<<"kraters_grouped.csv">>, GroupedCsvHeader,
                GroupedCsvRows(evs))

(***************************************************************************)
(* main of both scripts, with getProvider.  The fetch is one step that     *)
(* returns a batch of raw logs; Spec follows it chunk by chunk.            *)
(***************************************************************************)
NumEndpoints == 2

\* RPC_ENDPOINTS, by index
RPC_ENDPOINTS == [k \in 1..NumEndpoints |-> k]

\* the for...of over RPC_ENDPOINTS is over
EndpointsExhaustedAfterFirst(e) == e > 1

EndpointsExhausted(e) == e > Len(RPC_ENDPOINTS)

\* the catch of main: the deposit script exits the process, the vault script
\* goes on with the next vault
MainCatches(s) == IF s = "vault" THEN "continue" ELSE "exit"

\* the batches a fetch returns in a run
RunBatches(s) ==
    IF s = "vault"
    THEN { <<>>,
           <<TransferLog(AddrC, AddrB, 10, 8)>>,
           <<DepositLog(AddrC, AddrB, 100, 90, 5),
             WithdrawLog(AddrB, AddrC, AddrB, 30, 27, 6)>>,
           <<DepositLog(AddrC, AddrB, 100, 90, 5),
             WithdrawLog(AddrB, AddrB, AddrB, 100, 90, 7)>>,
           <<DepositLog(AddrB, AddrA, 7, 7, 9),
             WithdrawLog(AddrC, AddrC, AddrC, 5, 5, 4)>> }
    ELSE { <<>>,
           <<DepositProcessedLog(AddrA, AddrB, 1, <<"0", "x">>)>>,
           <<DepositProcessedLog(AddrA, AddrB, 1, <<"0", "x">>),
             DepositProcessedLog(AddrC, AddrB, 255, <<"0", "x">>),
             DepositProcessedLog(AddrA, AddrB, 9, <<"0", "x">>)>>,
           \* fewer than four topics: nothing is decoded
           <<[DepositProcessedLog(AddrA, AddrB, 1, <<"0", "x">>) EXCEPT
                 !.topics = <<TopicDepositProcessed, AddressTopic(AddrA)>>]>> }

InitRun ==
    /\ \E s \in {"vault", "deposit"} : FetchIdle(s)
    /\ PipeIdle
    /\ SaveIdle
    /\ rpc = "start"
    /\ vault = IF script = "vault" THEN 1 ELSE 0
    /\ endpoint = 0
    /\ tried = <<>>
    /\ provider = 0
    /\ attempted = <<>>
    /\ connectFailed = {}
    /\ exitCode = -1

\* what main does with an error thrown in its try block
ErrorInMain ==
    IF MainCatches(script) = "exit"
    THEN /\ rpc' = "exited"
         /\ exitCode' = 1
         /\ UNCHANGED vault
    ELSE /\ rpc' = "start"
         /\ vault' = vault + 1
         /\ UNCHANGED exitCode

\* the try block is entered (for the next vault of VAULTS in the vault
\* script) and getProvider is called
CallGetProvider ==
    /\ rpc = "start"
    /\ script = "vault" => vault <= Len(VAULTS)
    /\ attempted' = Append(attempted, vault)
    /\ vaultAddress' = IF script = "vault" THEN VAULTS[vault] ELSE vaultAddress
    /\ endpoint' = 1
    /\ tried' = <<>>
    /\ provider' = 0
    /\ rpc' = "connect"
    /\ UNCHANGED <<vault, connectFailed, exitCode>>
    /\ UNCHANGED <<userBalances, files, summary>>
    /\ UNCHANGED <<fetchVars, pipeVars>>

\* getProvider: the endpoint answers getBlockNumber, the provider is returned
EndpointAnswers ==
    /\ rpc = "connect"
    /\ ~EndpointsExhausted(endpoint)
    /\ tried' = Append(tried, RPC_ENDPOINTS[endpoint])
    /\ provider' = RPC_ENDPOINTS[endpoint]
    /\ rpc' = "connected"
    /\ UNCHANGED <<vault, endpoint, attempted, connectFailed, exitCode>>
    /\ UNCHANGED <<fetchVars, pipeVars, saveVars>>

\* getProvider: the endpoint fails, the catch continues with the next one
EndpointFails ==
    /\ rpc = "connect"
    /\ ~EndpointsExhausted(endpoint)
    /\ tried' = Append(tried, RPC_ENDPOINTS[endpoint])
    /\ endpoint' = endpoint + 1
    /\ UNCHANGED <<rpc, vault, provider, attempted, connectFailed, exitCode>>
    /\ UNCHANGED <<fetchVars, pipeVars, saveVars>>

\* getProvider throws "Failed to connect to any Ethereum RPC endpoint"; main
\* catches it
GetProviderThrows ==
    /\ rpc = "connect"
    /\ EndpointsExhausted(endpoint)
    /\ connectFailed' = connectFailed \cup {[vault |-> vault, tried |-> tried]}
    /\ ErrorInMain
    /\ UNCHANGED <<endpoint, tried, provider, attempted>>
    /\ UNCHANGED <<fetchVars, pipeVars, saveVars>>

\* main: await provider.getBlockNumber() resolves
CurrentBlockResolves ==
    /\ rpc = "connected"
    /\ rpc' = "fetch"
    /\ UNCHANGED <<vault, endpoint, tried, provider, attempted, connectFailed,
                   exitCode>>
    /\ UNCHANGED <<fetchVars, pipeVars, saveVars>>

\* main: await provider.getBlockNumber() rejects; main catches it
CurrentBlockRejects ==
    /\ rpc = "connected"
    /\ ErrorInMain
    /\ UNCHANGED <<endpoint, tried, provider, attempted, connectFailed>>
    /\ UNCHANGED <<fetchVars, pipeVars, saveVars>>

\* the fetch returns no event: main returns
FetchReturnsNothing ==
    /\ rpc = "fetch"
    /\ <<>> \in RunBatches(script)
    /\ events' = <<>>
    /\ rpc' = "returned"
    /\ UNCHANGED <<collation, ppc, pos, formattedEvents, grouped, groupedEvents,
                   runningBalance, balanceHistory>>
    /\ UNCHANGED <<vault, endpoint, tried, provider, attempted, connectFailed,
                   exitCode>>
    /\ UNCHANGED <<fetchVars, saveVars>>

\* vault script: the fetch returns events; formatEvents,
\* calculateRunningBalance, saveUserBalances; the loop goes to the next vault
ProcessVault ==
    /\ rpc = "fetch"
    /\ script = "vault"
    /\ \E batch \in RunBatches("vault") \ {<<>>} :
          LET formatted == FormatVaultAll(batch)
              history == CalculateRunningBalance(formatted)
              saved == SaveUserBalances(formatted, vaultAddress)
          IN  /\ events' = batch
              /\ formattedEvents' = formatted
              /\ balanceHistory' = history
              /\ runningBalance' =
                    IF history = <<>> THEN 0
                    ELSE BigIntOfString(history[Len(history)].runningBalance).val
              /\ userBalances' = saved.balances
              /\ files' = files \o saved.written
              /\ summary' = <<saved.returned>>
    /\ rpc' = "start"
    /\ vault' = vault + 1
    /\ UNCHANGED <<collation, ppc, pos, grouped, groupedEvents>>
    /\ UNCHANGED <<endpoint, tried, provider, attempted, connectFailed,
                   exitCode>>
    /\ UNCHANGED <<fetchVars, vaultAddress>>

\* deposit script: the fetch returns events; formatEvents, saveEventsToFile,
\* groupEventsByUserAndAsset, saveGroupedEventsToFile; main is over
ProcessDeposits ==
    /\ rpc = "fetch"
    /\ script = "deposit"
    /\ \E batch \in RunBatches("deposit") \ {<<>>} :
          LET formatted == FormatDepositAll(batch)
              groups == GroupEventsByUserAndAsset(formatted)
          IN  /\ events' = batch
              /\ formattedEvents' = formatted
              /\ groupedEvents' = groups
              /\ grouped' = GroupAll(<<>>, formatted)
              /\ files' = files \o <<SaveEventsToFile(formatted),
                                     SaveGroupedEventsToFile(groups)>>
    /\ rpc' = "done"
    /\ UNCHANGED <<collation, ppc, pos, runningBalance, balanceHistory>>
    /\ UNCHANGED <<vault, endpoint, tried, provider, attempted, connectFailed,
                   exitCode>>
    /\ UNCHANGED <<fetchVars, vaultAddress, userBalances, summary>>

\* vault script: the loop over VAULTS is over,
\* "=== Finished processing all vaults ===" is printed
FinishedAllVaults ==
    /\ rpc = "start"
    /\ script = "vault"
    /\ vault > Len(VAULTS)
    /\ rpc' = "finished"
    /\ UNCHANGED <<vault, endpoint, tried, provider, attempted, connectFailed,
                   exitCode>>
    /\ UNCHANGED <<fetchVars, pipeVars, saveVars>>

NextRun ==
    \/ CallGetProvider
    \/ EndpointAnswers
    \/ EndpointFails
    \/ GetProviderThrows
    \/ CurrentBlockResolves
    \/ CurrentBlockRejects
    \/ FetchReturnsNothing
    \/ ProcessVault
    \/ ProcessDeposits
    \/ FinishedAllVaults

SpecRun == InitRun /\ [][NextRun]_vars

(***************************************************************************)
(* Properties of the run.                                                  *)
(***************************************************************************)
\* the endpoints of the list up to the n-th, in list order
EndpointsUpTo(n) == [k \in 1..n |-> RPC_ENDPOINTS[k]]

\* getProvider tries the endpoints in list order, returns the first that
\* answers and throws only when it has tried them all
FirstAnsweringEndpoint ==
    /\ \A f \in connectFailed : f.tried = EndpointsUpTo(Len(RPC_ENDPOINTS))
    /\ rpc = "connect" => tried = EndpointsUpTo(endpoint - 1)
    /\ provider # 0 =>
          /\ tried = EndpointsUpTo(Len(tried))
          /\ provider = tried[Len(tried)]
    /\ rpc \in {"connected", "fetch"} =>
          /\ provider # 0
          /\ \A f \in connectFailed : f.vault # vault

\* C15 as claimed: when no endpoint answers, getProvider fails after trying
\* every endpoint in list order, the failure is surfaced to the caller and
\* aborts the run, and no report file is written in that run; when an endpoint
\* answers, the first answering endpoint in list order is used and no failure
\* is raised.
C15_ConnectFailureAbortsRun ==
    /\ FirstAnsweringEndpoint
    /\ connectFailed # {} =>
          /\ rpc = "exited"
          /\ exitCode = 1
          /\ files = <<>>

\* C15 amended: in the DepositProcessed script a failed getProvider ends the
\* run (exit code 1) and no report file is written; in the vault script the
\* failure is caught in main for the vault being processed: no report file is
\* written for that vault, the process does not exit and the loop goes on with
\* the next vault.  getProvider tries every endpoint in list order before it
\* fails and returns the first endpoint that answers.
C15_ConnectFailureEndsVault ==
    /\ FirstAnsweringEndpoint
    /\ (script = "deposit" /\ connectFailed # {}) =>
          /\ rpc = "exited"
          /\ exitCode = 1
          /\ files = <<>>
    /\ script = "vault" =>
          \A f \in connectFailed :
             /\ \A k \in 1..Len(files) :
                   files[k].filename # VaultFilename(VAULTS[f.vault])
             /\ exitCode = -1
             /\ rpc # "exited"
             /\ vault > f.vault

\* the vault script could not connect for the first vault and has written the
\* report of a later vault
C15_Witness ==
    /\ script = "vault"
    /\ \E f \in connectFailed : f.vault = 1
    /\ files # <<>>

\* the header row of a file: its header without the line feed that ends it
HeaderRow(file) == SubSeq(file.header, 1, Len(file.header) - 1)

\* C16: every CSV file written (flat deposit report, grouped deposit report,
\* per-vault balance report) is exactly one header row followed by one row per
\* record in record order, the rows separated by a single LF, and its content
\* never ends with a newline, for any number of records, zero included.
C16_CsvShape ==
    \A k \in 1..Len(files) :
       /\ SplitText(files[k].content, LF) = <<HeaderRow(files[k])>> \o files[k].rows
       /\ files[k].content[Len(files[k].content)] # LF

\* C17: main of the vault script attempts every vault of its list, in list
\* order: whatever happens while one vault is processed (a connection failure,
\* a thrown error, a fetch that returns no event), processing goes on with the
\* next vault, and "Finished processing all vaults" is reached only after each
\* vault has been attempted.
C17_EveryVaultAttempted ==
    script = "vault" =>
       /\ attempted = [k \in 1..Len(attempted) |-> k]
       /\ Len(attempted) <= Len(VAULTS)
       /\ rpc = "finished" => Len(attempted) = Len(VAULTS)
       /\ rpc \in {"finished", "returned", "exited"} =>
             Len(attempted) = Len(VAULTS)

====
